---- MODULE Spec2Model ----
(***************************************************************************)
(* A model of the pricedisplay terminal dashboard (src/pricedisplay):      *)
(* the layout chooser and collection system, the sparkline scaler, the     *)
(* marker placement engine and the DST-aware hour indexer of graphics.py,  *)
(* the bounding boxes, the price statistics of datahandler.py, the option  *)
(* handling of the constructors, the Update of the panels and the run of   *)
(* application.py.                                                         *)
(*                                                                         *)
(* Each component has its own specification (SpecLayout, SpecScaler,       *)
(* SpecMarker, SpecDst, SpecGeometry, SpecStats, SpecCollection,           *)
(* SpecOptions, SpecRender, SpecApp) over its own variables; the variables *)
(* of the other components stay at their idle values.                      *)
(***************************************************************************)
EXTENDS Integers, Sequences, FiniteSets, TLC

VARIABLES
    \* layout: PriceDisplay construction
    term,           \* parent.getmaxyx(): <<height, width>> of the terminal
    options,        \* the display option mapping (mutated by the layout methods)
    layout,         \* PriceDisplay._layout
    size,           \* the size chosen by _ChooseLayout
    subs,           \* leaf windows created so far, in creation order
    error,          \* the exception that ended construction, or "none"
    position,       \* the pos argument of PriceDisplay.__init__
    pc,             \* position inside PriceDisplay.__init__
    \* scaler: Graph._GetLimits / _GetLineParameters
    visiblePrices,  \* the visible price window (None for a missing price)
    numLines,       \* Graph._size.height - 2
    params,         \* result of _GetLineParameters, or an error record
    \* markers: the padded (pos, neg) grids of Graph.Update
    lines,          \* <<pos, neg>>, each a sequence of equal-width rows
    lastCall,       \* the placement call that produced `lines`
    \* DST indexer
    nowHour,        \* datetime.now().hour
    utcHour,        \* datetime.utcnow().hour
    hoursInDay,     \* len( priceData.today )
    normalTimezone, \* options['normalTimezone']
    index,          \* last result of _CurrentHourIndex, or None
    \* geometry: two bounding boxes and the last operation on them
    boxA,           \* a BBox (the parent's box for _FitsInside)
    boxB,           \* a second BBox (the requested box for _FitsInside)
    geo,            \* the last geometry call and its result
    \* price statistics: one PriceData object
    entries,        \* PriceData._data
    statistics,     \* _hasData, low, high, average of that object
    derivation,     \* how the object was made: constructor, slice or +
    \* collections: one call of _Collection._AddElements
    coll,           \* the collection and the arguments of the call
    built,          \* the exception raised and the sub-panels constructed
    \* options: one constructor called with an option mapping
    ctor,           \* the class constructed
    given,          \* the keys present in the mapping
    raised,         \* the exception of the constructor, or "none"
    \* rendering: one constructed panel and one Update
    panel,          \* the panel and its options
    daily,          \* the DailyData handed to Update
    clock,          \* <<now.hour, utcnow.hour>> at the time of the Update
    outcome,        \* the exception of Update and the details written
    \* application: _InitApp and _StartApp of application.py
    appPc,          \* position inside main()
    cursesActive,   \* the terminal is in curses mode (initscr without endwin)
    running,        \* App._running
    exitCode,       \* the argument of sys.exit, or None
    stored,         \* the prices the data handler holds
    screen,         \* what the terminal shows
    lastEvent,      \* the last step of the application and the state before it
    \* data handler: PriceDataHandler and the DailyData objects it hands out
    listStore,      \* the price lists in memory; a list is known by its place
    handlerPrices,  \* PriceDataHandler._prices._data, three places of listStore
    handed,         \* the copies GetPrices has returned so far
    rolled,         \* the last MidnightUpdate and the prices before it
    \* a day of the wall clock, the hour index read hour by hour
    elapsed,        \* whole hours since local midnight
    shiftHour,      \* the wall-clock hour that is repeated or skipped
    readings,       \* the values of _CurrentHourIndex read so far
    \* Graph.Update step by step; the graph is panel, the prices daily
    update          \* how far Update has come, and what it has drawn

layoutVars == <<term, options, layout, size, subs, error, position, pc>>
scalerVars == <<visiblePrices, numLines, params>>
markerVars == <<lines, lastCall>>
dstVars    == <<nowHour, utcHour, hoursInDay, normalTimezone, index>>
geometryVars   == <<boxA, boxB, geo>>
statsVars      == <<entries, statistics, derivation>>
collectionVars == <<coll, built>>
optionVars     == <<ctor, given, raised>>
renderVars     == <<panel, daily, clock, outcome>>
appVars        ==
    <<appPc, cursesActive, running, exitCode, stored, screen, lastEvent>>
handlerVars    == <<listStore, handlerPrices, handed, rolled>>
walkVars       == <<elapsed, shiftHour, readings>>
pipelineVars   == <<update>>
laterVars      == <<handlerVars, walkVars, pipelineVars>>
panelVars      ==
    <<geometryVars, statsVars, collectionVars, optionVars, renderVars, appVars>>
graphicsVars   == <<layoutVars, scalerVars, markerVars, dstVars>>
otherVars      ==
    <<geometryVars, statsVars, collectionVars, optionVars, renderVars, appVars,
      laterVars>>
vars       == <<layoutVars, scalerVars, markerVars, dstVars, otherVars>>

\* Python's None where the other values are strings
None == "None"

\* A number that may be None: Missing is None, Known(v) is the number v
Missing  == << >>
Known(v) == <<v>>
ValueOf(p) == p[1]

Max(a, b) == IF a >= b THEN a ELSE b
Min(a, b) == IF a <= b THEN a ELSE b
Abs(a)    == IF a < 0 THEN -a ELSE a

(***************************************************************************)
(* Geometry primitives                                                     *)
(***************************************************************************)

\* Size( ( height, width ) ) and Point( ( y, x ) ) are pairs.
Size(h, w)  == <<h, w>>
Point(y, x) == <<y, x>>

BBox(sz, pos) ==
    [ height |-> sz[1], width |-> sz[2], y |-> pos[1], x |-> pos[2],
      bottom |-> pos[1] + sz[1], left |-> pos[2],
      right  |-> pos[2] + sz[2], top  |-> pos[1] ]

\* A variant of BBox.__contains__ with an exclusive bottom edge
ContainsExclusiveBottom(self, bb) ==
    IF self.bottom <= bb.bottom THEN FALSE
    ELSE IF self.left > bb.left THEN FALSE
    ELSE IF self.right < bb.right THEN FALSE
    ELSE IF self.top > bb.top THEN FALSE
    ELSE TRUE

\* BBox.__contains__: `bb in self`
Contains(self, bb) ==
    IF self.bottom < bb.bottom THEN FALSE
    ELSE IF self.left > bb.left THEN FALSE
    ELSE IF self.right < bb.right THEN FALSE
    ELSE IF self.top > bb.top THEN FALSE
    ELSE TRUE

(***************************************************************************)
(* Class constants of graphics.py                                          *)
(***************************************************************************)

GraphMinSize             == Size(12, 36)
DetailsCurrentMinSize    == Size(3, 17)
DetailsNextMinSize       == Size(4, 17)
DetailsTodayMinSize      == Size(4, 17)
DetailsTomorrowMinSize   == Size(4, 17)
HorizontalDetailsMinSize == Size(9, 37)
HorizontalDetailsPadding == Size(1, 3)
VerticalDetailsMinSize   == Size(18, 17)
VerticalDetailsPadding   == Size(1, 0)
PriceDisplayMargin       == Size(1, 3)
PriceDisplayPadding      == Size(1, 3)
GraphDefaultPastHours    == 8

\* The exceptions of exceptions.py that window construction can raise.
NoError             == "none"
WindowSizeError     == "WindowSizeError"
WindowPositionError == "WindowPositionError"
CollectionSizeError == "CollectionSizeError"

(***************************************************************************)
(* _DisplayWindow._FitsInside: the exception raised, or NoError.           *)
(* parSize is parent.getmaxyx().                                           *)
(***************************************************************************)
FitsInside(boundingBox, parSize) ==
    LET parBB == BBox(parSize, Point(0, 0))
    IN  IF parBB.height < boundingBox.height \/ parBB.width < boundingBox.height
        THEN WindowSizeError
        ELSE IF ~ Contains(parBB, boundingBox)
        THEN WindowPositionError
        ELSE NoError

(***************************************************************************)
(* PriceDisplay._HorizontalSize / _VerticalSize                            *)
(***************************************************************************)
HorizontalSizeNoDetails ==
    Size( VerticalDetailsMinSize[1] + PriceDisplayPadding[1],
          GraphMinSize[2] + PriceDisplayPadding[2] )

HorizontalSize ==
    Size( VerticalDetailsMinSize[1] + PriceDisplayPadding[1],
          GraphMinSize[2] + PriceDisplayPadding[2] + VerticalDetailsMinSize[2] )

VerticalSize ==
    Size( GraphMinSize[1] + PriceDisplayPadding[1] + HorizontalDetailsMinSize[1],
          HorizontalDetailsMinSize[2] )

(***************************************************************************)
(* PriceDisplay._ChooseLayout: [layout, size]                              *)
(***************************************************************************)
ChooseLayoutNoFallback(contentSize, preferred) ==
    LET contBB == BBox(contentSize, Point(0, 0))
        canUseVertical   == Contains(contBB, BBox(VerticalSize, Point(0, 0)))
        canUseHorizontal == Contains(contBB, BBox(HorizontalSize, Point(0, 0)))
    IN  IF preferred = "minimal"
        THEN [layout |-> "minimal", size |-> GraphMinSize]
        ELSE IF preferred = "horizontal" /\ canUseHorizontal
        THEN [layout |-> "horizontal", size |-> HorizontalSize]
        ELSE IF preferred = "vertical" /\ canUseVertical
        THEN [layout |-> "vertical", size |-> VerticalSize]
        ELSE [layout |-> "minimal", size |-> GraphMinSize]

ChooseLayoutVerticalFirst(contentSize, preferred) ==
    LET contBB == BBox(contentSize, Point(0, 0))
        canUseVertical   == Contains(contBB, BBox(VerticalSize, Point(0, 0)))
        canUseHorizontal == Contains(contBB, BBox(HorizontalSize, Point(0, 0)))
    IN  IF preferred = "minimal"
        THEN [layout |-> "minimal", size |-> GraphMinSize]
        ELSE IF preferred = "horizontal" /\ canUseHorizontal
        THEN [layout |-> "horizontal", size |-> HorizontalSize]
        ELSE IF preferred = "vertical" /\ canUseVertical
        THEN [layout |-> "vertical", size |-> VerticalSize]
        ELSE IF canUseVertical
        THEN [layout |-> "vertical", size |-> VerticalSize]
        ELSE IF canUseHorizontal
        THEN [layout |-> "horizontal", size |-> HorizontalSize]
        ELSE [layout |-> "minimal", size |-> GraphMinSize]

ChooseLayout(contentSize, preferred) ==
    LET contBB == BBox(contentSize, Point(0, 0))
        verticalSize   == VerticalSize
        horizontalSize == HorizontalSize
        minimalSize    == GraphMinSize
        vertBB == BBox(verticalSize, Point(0, 0))
        horBB  == BBox(horizontalSize, Point(0, 0))
        canUseVertical   == Contains(contBB, vertBB)
        canUseHorizontal == Contains(contBB, horBB)
    IN  IF preferred = "minimal"
        THEN [layout |-> "minimal", size |-> minimalSize]
        ELSE IF preferred = "horizontal" /\ canUseHorizontal
        THEN [layout |-> "horizontal", size |-> horizontalSize]
        ELSE IF preferred = "vertical" /\ canUseVertical
        THEN [layout |-> "vertical", size |-> verticalSize]
        ELSE IF canUseHorizontal
        THEN [layout |-> "horizontal", size |-> horizontalSize]
        ELSE IF canUseVertical
        THEN [layout |-> "vertical", size |-> verticalSize]
        ELSE [layout |-> "minimal", size |-> minimalSize]

(***************************************************************************)
(* Window and collection construction.  A constructor yields               *)
(*   [err, wins, bb]: the exception raised (or NoError), the leaf windows  *)
(*   created up to that point in creation order, and the bounding box of   *)
(*   the constructed element.                                              *)
(***************************************************************************)

\* Graph._defaultOptions, as far as they decide the geometry
GraphDefaultOptions ==
    [ height |-> GraphMinSize[1], width |-> GraphMinSize[2],
      pastHours |-> GraphDefaultPastHours ]

\* opts = self._defaultOptions.copy(); opts.update( options )
GraphOptions(opts) == opts @@ GraphDefaultOptions

\* _DisplayWindow.__init__ of a leaf window: _FitsInside, then subwin
DisplayWindow(name, sz, pos, parSize) ==
    LET bb  == BBox(sz, pos)
        err == FitsInside(bb, parSize)
    IN  [ err  |-> err,
          wins |-> IF err = NoError THEN << [name |-> name, bb |-> bb] >> ELSE << >>,
          bb   |-> bb ]

\* The size a leaf panel class asks for: Graph takes it from the options,
\* the detail windows use their minSize.
LeafSize(name, opts) ==
    CASE name = "Graph"           -> Size(GraphOptions(opts).height, GraphOptions(opts).width)
      [] name = "DetailsCurrent"  -> DetailsCurrentMinSize
      [] name = "DetailsNext"     -> DetailsNextMinSize
      [] name = "DetailsToday"    -> DetailsTodayMinSize
      [] name = "DetailsTomorrow" -> DetailsTomorrowMinSize

\* sum( rowSize ), sum( colSize )
RECURSIVE SumSizes(_)
SumSizes(q) == IF q = << >> THEN 0 ELSE Head(q) + SumSizes(Tail(q))

\* A variant of _VerifyLayout that leaves the padding out of the extent
VerifyLayoutNoPadding(rows, cols, rowSize, colSize, padding, selfSize) ==
    LET rowErr == /\ rowSize # << >>
                  /\ \/ Len(rowSize) # rows
                     \/ SumSizes(rowSize) > selfSize[1]
        colErr == /\ colSize # << >>
                  /\ \/ Len(colSize) # cols
                     \/ SumSizes(colSize) > selfSize[2]
    IN  IF rowErr \/ colErr THEN CollectionSizeError ELSE NoError

\* _Collection._VerifyLayout: rowSize / colSize are << >> when not given
\* (the code tests `if rowSize:`, so an empty list counts as not given)
VerifyLayout(rows, cols, rowSize, colSize, padding, selfSize) ==
    LET rowErr == /\ rowSize # << >>
                  /\ \/ Len(rowSize) # rows
                     \/ SumSizes(rowSize) + (rows - 1) * padding[1] > selfSize[1]
        colErr == /\ colSize # << >>
                  /\ \/ Len(colSize) # cols
                     \/ SumSizes(colSize) + (cols - 1) * padding[2] > selfSize[2]
    IN  IF rowErr \/ colErr THEN CollectionSizeError ELSE NoError

\* A variant of _NextColumn that leaves the padding out
NextColumnNoPadding(pos, elemBB, j, colSize, padding) ==
    LET width == IF colSize # << >> THEN colSize[j + 1] ELSE elemBB.width
    IN  Point(pos[1], pos[2] + width)

\* _Collection._NextColumn
NextColumn(pos, elemBB, j, colSize, padding) ==
    LET width == IF colSize # << >> THEN colSize[j + 1] ELSE elemBB.width
    IN  Point(pos[1], pos[2] + width + padding[2])

\* _Collection._NextRow
NextRow(pos, elemBB, i, rowSize, padding, selfPos) ==
    LET height == IF rowSize # << >> THEN rowSize[i + 1] ELSE elemBB.height
    IN  Point(pos[1] + height + padding[1], selfPos[2])

RECURSIVE Element(_, _, _, _)
RECURSIVE AddFrom(_, _, _, _, _)
RECURSIVE AddElements(_, _, _, _, _, _, _, _)

\* The loop of _Collection._AddElements from flat element number k on:
\* c holds the collection's fields, acc the windows created so far.
AddFrom(k, pos, acc, c, lastBB) ==
    LET rows == Len(c.elems)
        cols == Len(c.elems[1])
        i == k \div cols
        j == k % cols
    IN  IF k = rows * cols
        THEN [err |-> NoError, wins |-> acc, bb |-> lastBB]
        ELSE LET current == Element(c.elems[i + 1][j + 1], pos, c.options, c.parSize)
                 nextCol == NextColumn(pos, current.bb, j, c.colSize, c.padding)
                 nextPos == IF j = cols - 1
                            THEN NextRow(nextCol, current.bb, i, c.rowSize, c.padding, c.pos)
                            ELSE nextCol
             IN  IF current.err # NoError
                 THEN [err |-> current.err, wins |-> acc \o current.wins, bb |-> current.bb]
                 ELSE AddFrom(k + 1, nextPos, acc \o current.wins, c, current.bb)

\* _Collection._AddElements
AddElements(elems, colSize, rowSize, selfPos, selfSize, padding, opts, parSize) ==
    LET verify == VerifyLayout(Len(elems), Len(elems[1]), rowSize, colSize, padding, selfSize)
        c == [ elems |-> elems, colSize |-> colSize, rowSize |-> rowSize,
               pos |-> selfPos, padding |-> padding, options |-> opts,
               parSize |-> parSize ]
    IN  IF verify # NoError
        THEN [err |-> verify, wins |-> << >>, bb |-> BBox(selfSize, selfPos)]
        ELSE AddFrom(0, selfPos, << >>, c, BBox(selfSize, selfPos))

\* HorizontalDetails.__init__
HorizontalDetails(pos, opts, parSize) ==
    LET self  == BBox(HorizontalDetailsMinSize, pos)
        err   == FitsInside(self, parSize)
        elems == << <<"DetailsCurrent", "DetailsNext">>,
                    <<"DetailsToday", "DetailsTomorrow">> >>
        height == Max(DetailsCurrentMinSize[1], DetailsNextMinSize[1])
        rows  == << height, DetailsTomorrowMinSize[1] >>
        added == AddElements(elems, << >>, rows, pos, HorizontalDetailsMinSize,
                             HorizontalDetailsPadding, opts, parSize)
    IN  IF err # NoError
        THEN [err |-> err, wins |-> << >>, bb |-> self]
        ELSE [err |-> added.err, wins |-> added.wins, bb |-> self]

\* VerticalDetails.__init__
VerticalDetails(pos, opts, parSize) ==
    LET self  == BBox(VerticalDetailsMinSize, pos)
        err   == FitsInside(self, parSize)
        elems == << <<"DetailsCurrent">>, <<"DetailsNext">>,
                    <<"DetailsToday">>, <<"DetailsTomorrow">> >>
        added == AddElements(elems, << >>, << >>, pos, VerticalDetailsMinSize,
                             VerticalDetailsPadding, opts, parSize)
    IN  IF err # NoError
        THEN [err |-> err, wins |-> << >>, bb |-> self]
        ELSE [err |-> added.err, wins |-> added.wins, bb |-> self]

\* elem( pos, self._options, self._parent ) in _AddElements
Element(name, pos, opts, parSize) ==
    CASE name = "HorizontalDetails" -> HorizontalDetails(pos, opts, parSize)
      [] name = "VerticalDetails"   -> VerticalDetails(pos, opts, parSize)
      [] OTHER -> DisplayWindow(name, LeafSize(name, opts), pos, parSize)

(***************************************************************************)
(* Idle values: what a component's variables hold in the specifications    *)
(* of the other components.                                                *)
(***************************************************************************)
IdleLayout ==
    /\ term = <<0, 0>> /\ options = << >> /\ layout = None /\ size = None
    /\ subs = << >> /\ error = NoError /\ position = <<0, 0>> /\ pc = "idle"

IdleScaler == visiblePrices = << >> /\ numLines = 0 /\ params = [err |-> None]

IdleMarker == lines = << << >>, << >> >> /\ lastCall = [op |-> None]

IdleDst ==
    /\ nowHour = 0 /\ utcHour = 0 /\ hoursInDay = 24
    /\ normalTimezone = 0 /\ index = Missing

IdleGeometry ==
    /\ boxA = BBox(Size(0, 0), Point(0, 0)) /\ boxB = boxA
    /\ geo = [op |-> None]

IdleStats ==
    entries = << >> /\ statistics = [hasData |-> FALSE] /\ derivation = None

IdleCollection == coll = [elems |-> << >>] /\ built = [err |-> None]

IdleOptions == ctor = None /\ given = {} /\ raised = [kind |-> None]

IdleRender ==
    /\ panel = [class |-> None] /\ daily = << >> /\ clock = <<0, 0>>
    /\ outcome = [err |-> None]

IdleApp ==
    /\ appPc = "idle" /\ cursesActive = FALSE /\ running = FALSE
    /\ exitCode = Missing /\ stored = [version |-> 0, tomorrow |-> FALSE]
    /\ screen = << >>
    /\ lastEvent = [step |-> None]

IdleHandler ==
    /\ listStore = << >> /\ handlerPrices = << >> /\ handed = << >>
    /\ rolled = [op |-> None]

IdleWalk == elapsed = 0 /\ shiftHour = 0 /\ readings = << >>

IdlePipeline == update = [step |-> None]

IdleLater == IdleHandler /\ IdleWalk /\ IdlePipeline

IdleGraphics == IdleLayout /\ IdleScaler /\ IdleMarker /\ IdleDst

IdlePanels ==
    /\ IdleGeometry /\ IdleStats /\ IdleCollection /\ IdleOptions
    /\ IdleRender /\ IdleApp

IdleOther == IdlePanels /\ IdleLater

(***************************************************************************)
(* SpecLayout: construction of a PriceDisplay on a terminal                *)
(***************************************************************************)

TermMaxHeight == 26
TermMaxWidth  == 64
MaxPosition   == 1

\* layout.preferred is a free string of the configuration: "other" stands
\* for every value that names none of the three layouts.
Preferred == {"minimal", "horizontal", "vertical", "other"}

InitLayout ==
    /\ term \in (1..TermMaxHeight) \X (1..TermMaxWidth)
    /\ \E p \in Preferred, r \in BOOLEAN :
          options = [preferred |-> p, reverse |-> r]
    /\ position \in (0..MaxPosition) \X (0..MaxPosition)
    /\ layout = None /\ size = None /\ subs = << >>
    /\ error = NoError /\ pc = "init"
    /\ IdleScaler /\ IdleMarker /\ IdleDst /\ IdleOther

\* PriceDisplay.__init__, up to the choice of the layout
ContentSize(parSize) ==
    LET pad == PriceDisplayPadding
    IN  Size(parSize[1] - 2 * pad[1], parSize[2] - 2 * pad[2])

PriceDisplayChoose ==
    /\ pc = "init"
    /\ LET chosen == ChooseLayout(ContentSize(term), options.preferred)
       IN  /\ layout' = chosen.layout
           /\ size' = chosen.size
    /\ pc' = "chosen"
    /\ UNCHANGED <<term, options, subs, error, position>>
    /\ UNCHANGED <<scalerVars, markerVars, dstVars, otherVars>>

\* _SpacedCollection.__init__: the exception raised, or NoError
SpacedCollectionPos(pos, margin) == Point(pos[1] + margin[1], pos[2] + margin[2])

SpacedCollectionInit(pos, sz, margin, parSize) ==
    LET paddedSize == Size(2 * margin[1] + sz[1], 2 * margin[2] + sz[2])
        outer == FitsInside(BBox(paddedSize, pos), parSize)
        inner == FitsInside(BBox(sz, SpacedCollectionPos(pos, margin)), parSize)
    IN  IF outer # NoError THEN outer ELSE inner

PriceDisplaySpaced ==
    /\ pc = "chosen"
    /\ error' = SpacedCollectionInit(position, size, PriceDisplayMargin, term)
    /\ pc' = IF error' = NoError THEN "spaced" ELSE "failed"
    /\ UNCHANGED <<term, options, layout, size, subs, position>>
    /\ UNCHANGED <<scalerVars, markerVars, dstVars, otherVars>>

\* PriceDisplay._HorizontalLayout / _MinimalLayout / _VerticalLayout:
\* the options after the method's assignment, and the element grid
LayoutOptions(lay, opts) ==
    CASE lay = "horizontal" -> [height |-> VerticalDetailsMinSize[1] + 1] @@ opts
      [] lay = "vertical"   -> [width |-> HorizontalDetailsMinSize[2]] @@ opts
      [] OTHER              -> opts

LayoutElements(lay, opts) ==
    CASE lay = "horizontal" ->
            IF opts.reverse THEN << <<"VerticalDetails", "Graph">> >>
                            ELSE << <<"Graph", "VerticalDetails">> >>
      [] lay = "vertical" ->
            IF opts.reverse THEN << <<"HorizontalDetails">>, <<"Graph">> >>
                            ELSE << <<"Graph">>, <<"HorizontalDetails">> >>
      [] OTHER -> << <<"Graph">> >>

\* PriceDisplay._CreateLayout
CreateLayout(lay, opts, pos, sz, parSize) ==
    AddElements(LayoutElements(lay, opts), << >>, << >>,
                SpacedCollectionPos(pos, PriceDisplayMargin), sz,
                PriceDisplayPadding, LayoutOptions(lay, opts), parSize)

PriceDisplayCreate ==
    /\ pc = "spaced"
    /\ LET made == CreateLayout(layout, options, position, size, term)
       IN  /\ options' = LayoutOptions(layout, options)
           /\ subs' = made.wins
           /\ error' = made.err
           /\ pc' = IF made.err = NoError THEN "done" ELSE "failed"
    /\ UNCHANGED <<term, layout, size, position>>
    /\ UNCHANGED <<scalerVars, markerVars, dstVars, otherVars>>

NextLayout == PriceDisplayChoose \/ PriceDisplaySpaced \/ PriceDisplayCreate

SpecLayout == InitLayout /\ [][NextLayout]_vars

(***************************************************************************)
(* Properties of the layout chooser (SpecLayout)                           *)
(***************************************************************************)

\* A candidate size fits when its box at the origin lies inside the content box.
CandidateFits(candidate, contentSize) ==
    candidate[1] <= contentSize[1] /\ candidate[2] <= contentSize[2]

LayoutChosen == pc \in {"chosen", "spaced", "done", "failed"}

NamedLayouts == {"minimal", "horizontal", "vertical"}

\* The decision table of claim C1.
DecisionTable(contentSize, preferred) ==
    LET fitsH == CandidateFits(<<19, 56>>, contentSize)
        fitsV == CandidateFits(<<22, 37>>, contentSize)
    IN  IF preferred = "minimal" THEN "minimal"
        ELSE IF preferred = "horizontal"
        THEN (IF fitsH THEN "horizontal" ELSE IF fitsV THEN "vertical" ELSE "minimal")
        ELSE (IF fitsV THEN "vertical" ELSE IF fitsH THEN "horizontal" ELSE "minimal")

\* C1: for every content size and every preferred in {minimal, horizontal,
\* vertical}, _ChooseLayout returns minimal for a minimal preference, else the
\* preferred layout when its candidate fits, else the other of horizontal and
\* vertical when that one fits, else minimal; when neither candidate fits the
\* result is minimal whatever the preference.
C1_DecisionTable ==
    (LayoutChosen /\ options.preferred \in NamedLayouts) =>
        /\ layout = DecisionTable(ContentSize(term), options.preferred)
        /\ ( ( ~ CandidateFits(<<19, 56>>, ContentSize(term))
               /\ ~ CandidateFits(<<22, 37>>, ContentSize(term)) )
             => layout = "minimal" )

\* C1 witness: horizontal is preferred but only vertical fits, and the
\* chooser fell back to vertical.
C1_Witness ==
    /\ pc = "chosen" /\ options.preferred = "horizontal"
    /\ term = <<24, 43>> /\ layout = "vertical" /\ size = <<22, 37>>

\* The preference rules select nothing: preferred is not minimal and does
\* not name a fitting horizontal or vertical layout.
PreferenceSelectsNothing ==
    /\ options.preferred # "minimal"
    /\ ~ ( options.preferred = "horizontal"
           /\ CandidateFits(HorizontalSize, ContentSize(term)) )
    /\ ~ ( options.preferred = "vertical"
           /\ CandidateFits(VerticalSize, ContentSize(term)) )

BothCandidatesFit ==
    /\ CandidateFits(HorizontalSize, ContentSize(term))
    /\ CandidateFits(VerticalSize, ContentSize(term))

\* C2 as stated: when the preference rules select nothing and both
\* candidates fit, the chosen layout is vertical (vertical-first fallback).
C2_VerticalFirst ==
    (LayoutChosen /\ PreferenceSelectsNothing /\ BothCandidatesFit)
        => layout = "vertical"

\* C2 amended: when the preference rules select nothing and both candidates
\* fit, the chosen layout is horizontal (horizontal-first fallback).
C2_HorizontalFirst ==
    (LayoutChosen /\ PreferenceSelectsNothing /\ BothCandidatesFit)
        => layout = "horizontal" /\ size = HorizontalSize

\* C2 witness: an unrecognised preference on a terminal where both
\* candidates fit; the fallback chose horizontal.
C2_Witness ==
    /\ pc = "chosen" /\ options.preferred = "other"
    /\ BothCandidatesFit /\ layout = "horizontal"

LeafCount(lay) ==
    IF lay = "minimal" THEN 1 ELSE 5

\* C3: on every terminal of at least 14 rows by 42 columns, for every
\* preferred in {minimal, horizontal, vertical} and both values of reverse,
\* construction of a PriceDisplay at (0,0) raises no WindowSizeError,
\* WindowPositionError or CollectionSizeError, and when it is done every
\* sub-panel of the chosen layout has been created.
C3_GuaranteedFit ==
    ( /\ pc # "idle"
      /\ term[1] >= 14 /\ term[2] >= 42
      /\ position = <<0, 0>>
      /\ options.preferred \in NamedLayouts )
    => /\ error = NoError
       /\ pc # "failed"
       /\ pc = "done" => Len(subs) = LeafCount(layout)

\* C3 witness: the reversed vertical layout built on the smallest terminal
\* that admits it, chosen as the fallback of a horizontal preference.
C3_Witness ==
    /\ pc = "done" /\ term = <<24, 43>> /\ position = <<0, 0>>
    /\ options.preferred = "horizontal" /\ options.reverse
    /\ layout = "vertical" /\ Len(subs) = 5 /\ error = NoError

\* The box of the PriceDisplay's content: its position behind the margin,
\* and the size chosen for the layout
ContentBox == BBox(size, SpacedCollectionPos(position, PriceDisplayMargin))

\* two boxes share a cell
Overlap(a, b) ==
    /\ a.left < b.right /\ b.left < a.right
    /\ a.top < b.bottom /\ b.top < a.bottom

\* b lies at least the padding to the right of, or below, a
Clear(a, b, pad) == a.right + pad[2] <= b.left \/ a.bottom + pad[1] <= b.top

\* b lies exactly the padding to the right of, or below, a
Adjoins(a, b, pad) == b.left = a.right + pad[2] \/ b.top = a.bottom + pad[1]

\* The padding of the collection that holds both panels: the PriceDisplay
\* for the graph and a detail window, the block of details for two detail
\* windows.
PaddingBetween(a, b) ==
    IF a.name = "Graph" \/ b.name = "Graph" THEN PriceDisplayPadding
    ELSE IF layout = "horizontal" THEN VerticalDetailsPadding
    ELSE HorizontalDetailsPadding

\* C29: for each layout and both values of reverse, when the PriceDisplay
\* has been constructed every leaf panel lies inside the content box of the
\* PriceDisplay, no two leaf panels overlap, any two of them are at least
\* the padding of their collection apart, and every panel but the first
\* lies exactly that padding to the right of or below another one.
C29_LayoutWellFormed ==
    (pc = "done" /\ options.preferred \in NamedLayouts) =>
        /\ \A k \in 1..Len(subs) : Contains(ContentBox, subs[k].bb)
        /\ \A k \in 1..Len(subs) : \A m \in 1..Len(subs) :
              k # m =>
                 /\ ~ Overlap(subs[k].bb, subs[m].bb)
                 /\ LET pad == PaddingBetween(subs[k], subs[m])
                    IN  \/ Clear(subs[k].bb, subs[m].bb, pad)
                        \/ Clear(subs[m].bb, subs[k].bb, pad)
        /\ \A m \in 2..Len(subs) : \E k \in 1..(m - 1) :
              Adjoins(subs[k].bb, subs[m].bb, PaddingBetween(subs[k], subs[m]))

\* C29 witness: the reversed horizontal layout, the graph three columns to
\* the right of the four detail windows
C29_Witness ==
    /\ pc = "done" /\ layout = "horizontal" /\ options.reverse
    /\ Len(subs) = 5 /\ subs[5].name = "Graph"
    /\ subs[5].bb.left = subs[1].bb.right + PriceDisplayPadding[2]
    /\ subs[5].bb.right = ContentBox.right

\* the plain and the reversed vertical layout, and the minimal one, built
C29_WitnessVertical ==
    /\ pc = "done" /\ layout = "vertical" /\ ~ options.reverse
    /\ subs[1].name = "Graph" /\ subs[5].bb.bottom = ContentBox.bottom

C29_WitnessVerticalReversed ==
    /\ pc = "done" /\ layout = "vertical" /\ options.reverse
    /\ subs[5].name = "Graph" /\ subs[5].bb.bottom = ContentBox.bottom

C29_WitnessMinimal ==
    /\ pc = "done" /\ layout = "minimal" /\ Len(subs) = 1
    /\ subs[1].bb = ContentBox

(***************************************************************************)
(* Sparkline scaler.  Prices are integers (a fixed fraction of a cent);    *)
(* the quotients the code forms in floating point are kept as exact        *)
(* fractions <<numerator, denominator>>.                                   *)
(***************************************************************************)

ZeroDivisionError == "ZeroDivisionError"

Fraction(n, d) == <<n, d>>

\* math.floor( n / d ) and math.ceil( n / d ) for d > 0
Floor(n, d) == n \div d
Ceil(n, d)  == -((-n) \div d)

\* Python's round( n / d ) for n >= 0, d > 0: half to even
Round(n, d) ==
    LET q == n \div d
        r == n % d
    IN  IF 2 * r < d THEN q
        ELSE IF 2 * r > d THEN q + 1
        ELSE IF q % 2 = 0 THEN q ELSE q + 1

\* Graph._GetLimits: <<minimum, maximum>> of the non-missing prices and 0
GetLimits(prices) ==
    LET filtered == { ValueOf(prices[k]) : k \in { n \in DOMAIN prices : prices[n] # Missing } } \cup {0}
    IN  << CHOOSE m \in filtered : \A v \in filtered : m <= v,
           CHOOSE m \in filtered : \A v \in filtered : m >= v >>

LineParams(numPos, posMaximum, numNeg, negMaximum) ==
    [ err |-> NoError,
      pos |-> [numLines |-> numPos, maximum |-> posMaximum],
      neg |-> [numLines |-> numNeg, maximum |-> negMaximum] ]

Raised(exception) == [ err |-> exception ]

\* params before _GetLineParameters has run
NotComputed == [ err |-> None ]

\* Variants of _GetScaledLineParameters with a changed row allocation
GetScaledLineParametersRound(limits, height) ==
    LET lineCount == height - 2
        minimum == limits[1]
        maximum == limits[2]
        numPosLines == Round(maximum * lineCount, maximum - minimum)
        numNegLines == lineCount - numPosLines
    IN  IF maximum < Abs(minimum)
        THEN IF numNegLines = 0 THEN Raised(ZeroDivisionError)
             ELSE LineParams(numPosLines, Fraction(-minimum * numPosLines, numNegLines),
                             numNegLines, Fraction(-minimum, 1))
        ELSE IF numPosLines = 0 THEN Raised(ZeroDivisionError)
             ELSE LineParams(numPosLines, Fraction(maximum, 1),
                             numNegLines, Fraction(maximum * numNegLines, numPosLines))

GetScaledLineParametersUnscaled(limits, height) ==
    LET lineCount == height - 2
        minimum == limits[1]
        maximum == limits[2]
    IN  IF maximum < Abs(minimum)
        THEN LET numPosLines == Ceil(maximum * lineCount, maximum - minimum)
                 numNegLines == lineCount - numPosLines
             IN  IF numNegLines = 0 THEN Raised(ZeroDivisionError)
                 ELSE LineParams(numPosLines, Fraction(maximum, 1),
                                 numNegLines, Fraction(-minimum, 1))
        ELSE LET numPosLines == Floor(maximum * lineCount, maximum - minimum)
                 numNegLines == lineCount - numPosLines
             IN  IF numPosLines = 0 THEN Raised(ZeroDivisionError)
                 ELSE LineParams(numPosLines, Fraction(maximum, 1),
                                 numNegLines, Fraction(-minimum, 1))

GetScaledLineParametersEven(limits, height) ==
    LET lineCount == height - 2
        minimum == limits[1]
        maximum == limits[2]
        numPosLines == lineCount \div 2
        numNegLines == lineCount - numPosLines
    IN  IF numPosLines = 0 \/ numNegLines = 0 THEN Raised(ZeroDivisionError)
        ELSE IF maximum < Abs(minimum)
        THEN LineParams(numPosLines, Fraction(-minimum * numPosLines, numNegLines),
                        numNegLines, Fraction(-minimum, 1))
        ELSE LineParams(numPosLines, Fraction(maximum, 1),
                        numNegLines, Fraction(maximum * numNegLines, numPosLines))

\* Graph._GetScaledLineParameters; height is self._size.height.
\* ratio*numLines is maximum * numLines / ( maximum - minimum ).
GetScaledLineParameters(limits, height) ==
    LET lineCount == height - 2
        minimum == limits[1]
        maximum == limits[2]
    IN  IF maximum < Abs(minimum)
        THEN LET numPosLines == Ceil(maximum * lineCount, maximum - minimum)
                 numNegLines == lineCount - numPosLines
             IN  IF numNegLines = 0 THEN Raised(ZeroDivisionError)
                 ELSE LineParams(numPosLines, Fraction(-minimum * numPosLines, numNegLines),
                                 numNegLines, Fraction(-minimum, 1))
        ELSE LET numPosLines == Floor(maximum * lineCount, maximum - minimum)
                 numNegLines == lineCount - numPosLines
             IN  IF numPosLines = 0 THEN Raised(ZeroDivisionError)
                 ELSE LineParams(numPosLines, Fraction(maximum, 1),
                                 numNegLines, Fraction(maximum * numNegLines, numPosLines))

\* A variant of _GetLineParameters without the all-negative branch
GetLineParametersNoNegative(limits, height) ==
    LET lineCount == height - 2
        minimum == limits[1]
        maximum == limits[2]
    IN  IF minimum < 0 /\ maximum > 0
        THEN GetScaledLineParameters(limits, height)
        ELSE LineParams(lineCount, Fraction(maximum, 1), 0, Fraction(0, 1))

\* Graph._GetLineParameters
GetLineParameters(limits, height) ==
    LET lineCount == height - 2
        minimum == limits[1]
        maximum == limits[2]
    IN  IF minimum < 0 /\ maximum > 0
        THEN GetScaledLineParameters(limits, height)
        ELSE IF minimum < 0
        THEN LineParams(0, Fraction(0, 1), lineCount, Fraction(-minimum, 1))
        ELSE LineParams(lineCount, Fraction(maximum, 1), 0, Fraction(0, 1))

(***************************************************************************)
(* SpecScaler: line parameters of a visible price window                   *)
(***************************************************************************)

MaxPrice    == 7
MaxWindow   == 3
MaxNumLines == 10

Prices == (-MaxPrice)..MaxPrice
NullablePrices == { Known(v) : v \in Prices } \cup {Missing}

\* The windows of the specification's scaler examples
ExampleWindows ==
    { << Known(-10), Known(0), Known(5) >>,
      << Known(-5), Known(-2), Known(0), Known(3), Known(7) >> }

Windows ==
    UNION { [1..n -> NullablePrices] : n \in 1..MaxWindow } \cup ExampleWindows

InitScaler ==
    /\ visiblePrices \in Windows
    /\ numLines \in 0..MaxNumLines
    /\ params = NotComputed
    /\ IdleLayout /\ IdleMarker /\ IdleDst /\ IdleOther

\* limits = self._GetLimits( visiblePrices )
\* posParams, negParams = self._GetLineParameters( limits )
GraphGetLineParameters ==
    /\ params = NotComputed
    /\ params' = GetLineParameters(GetLimits(visiblePrices), numLines + 2)
    /\ UNCHANGED <<visiblePrices, numLines>>
    /\ UNCHANGED <<layoutVars, markerVars, dstVars, otherVars>>

NextScaler == GraphGetLineParameters

SpecScaler == InitScaler /\ [][NextScaler]_vars

(***************************************************************************)
(* Properties of the scaler (SpecScaler)                                   *)
(***************************************************************************)

HasPositive(prices) ==
    \E k \in DOMAIN prices : prices[k] # Missing /\ ValueOf(prices[k]) > 0

HasNegative(prices) ==
    \E k \in DOMAIN prices : prices[k] # Missing /\ ValueOf(prices[k]) < 0

BothSigns == HasPositive(visiblePrices) /\ HasNegative(visiblePrices)

\* _GetLineParameters has returned line parameters
Returned == params # NotComputed /\ params.err = NoError

\* C4: the line counts returned by _GetLineParameters add up to numLines
\* when the window holds both a positive and a negative price; when only one
\* sign is present that side gets numLines rows and the other side 0 rows.
C4_RowConservation ==
    Returned =>
        /\ BothSigns => params.pos.numLines + params.neg.numLines = numLines
        /\ (HasPositive(visiblePrices) /\ ~ HasNegative(visiblePrices))
              => params.pos.numLines = numLines /\ params.neg.numLines = 0
        /\ (HasNegative(visiblePrices) /\ ~ HasPositive(visiblePrices))
              => params.neg.numLines = numLines /\ params.pos.numLines = 0

\* C4 witness: a window with a gap and both signs on the default budget of
\* 10 rows, split 6 + 4.
C4_Witness ==
    /\ visiblePrices = << Known(-3), Missing, Known(6) >> /\ numLines = 10
    /\ Returned /\ params.pos.numLines = 6 /\ params.neg.numLines = 4

\* C5: with both signs present and numLines >= 2 the scaled parameters are
\* returned with at least one row on each side.
C5_NoSideDropped ==
    (params # NotComputed /\ BothSigns /\ numLines >= 2) =>
        /\ params.err = NoError
        /\ params.pos.numLines >= 1
        /\ params.neg.numLines >= 1

\* C5 witness: the most lopsided window on the smallest budget still gives
\* the small positive side its row.
C5_Witness ==
    /\ visiblePrices = << Known(1), Known(-7) >> /\ numLines = 2
    /\ Returned /\ params.pos.numLines = 1 /\ params.neg.numLines = 1

\* C6: with both signs present both sides get the same price per row,
\* posMaximum * numNegLines = negMaximum * numPosLines, and the side of the
\* larger magnitude keeps its true extreme.
C6_Proportional ==
    (Returned /\ BothSigns) =>
        LET posMaximum == params.pos.maximum
            negMaximum == params.neg.maximum
            minimum == GetLimits(visiblePrices)[1]
            maximum == GetLimits(visiblePrices)[2]
        IN  /\ posMaximum[1] * params.neg.numLines * negMaximum[2]
                 = negMaximum[1] * params.pos.numLines * posMaximum[2]
            /\ maximum >= Abs(minimum) => posMaximum[1] = maximum * posMaximum[2]
            /\ maximum < Abs(minimum) => negMaximum[1] = Abs(minimum) * negMaximum[2]

\* C6 witness: negative magnitude dominates; 3 positive and 7 negative rows,
\* the positive maximum scaled to 7 * 3/7 = 3.
C6_Witness ==
    /\ visiblePrices = << Known(2), Known(-7) >> /\ numLines = 10
    /\ Returned /\ params.pos.numLines = 3 /\ params.neg.numLines = 7
    /\ params.pos.maximum = Fraction(21, 7) /\ params.neg.maximum = Fraction(7, 1)

ExampleA == << Known(-10), Known(0), Known(5) >>
ExampleB == << Known(-5), Known(-2), Known(0), Known(3), Known(7) >>

\* C7: with both signs present the positive row count is within one row of
\* numLines * maximum / (maximum - minimum); the window [-10, 0, 5] on 8
\* rows and the window [-5, -2, 0, 3, 7] on 6 rows are allocated that way,
\* the latter with at least one row on each side.
C7_WithinOneRow ==
    /\ (Returned /\ BothSigns) =>
          LET minimum == GetLimits(visiblePrices)[1]
              maximum == GetLimits(visiblePrices)[2]
          IN  Abs( params.pos.numLines * (maximum - minimum) - numLines * maximum )
                 < maximum - minimum
    /\ (params # NotComputed /\ visiblePrices = ExampleA /\ numLines = 8) =>
          /\ params.err = NoError
          /\ Abs( params.pos.numLines * 15 - 8 * 5 ) < 15
          /\ Abs( params.neg.numLines * 15 - 8 * 10 ) < 15
    /\ (params # NotComputed /\ visiblePrices = ExampleB /\ numLines = 6) =>
          /\ params.err = NoError
          /\ params.pos.numLines >= 1 /\ params.neg.numLines >= 1
          /\ Abs( params.pos.numLines * 12 - 6 * 7 ) < 12
          /\ Abs( params.neg.numLines * 12 - 6 * 5 ) < 12

\* C7 witness: [-10, 0, 5] on 8 rows is split 3 + 5.
C7_Witness ==
    /\ visiblePrices = ExampleA /\ numLines = 8
    /\ Returned /\ params.pos.numLines = 3 /\ params.neg.numLines = 5

(***************************************************************************)
(* Marker placement engine.  A row is a sequence of one-character cells,   *)
(* a grid a sequence of rows; lines = <<pos, neg>> are the padded grids.   *)
(* Hours (columns) count from 0 as in the code.                            *)
(***************************************************************************)

\* The cells sparklines draws: "#" stands for the full block (U+2588) that
\* _AddSymbolBelow tests for, "=" for any of the lower partial blocks.
Blank     == " "
FullBlock == "#"
HalfBlock == "="

\* Graph._defaultOptions: carets, extremes, missing ("v" and "^" stand for
\* the logical-or and logical-and signs the source uses as extremes)
Carets        == << "▼", "▲" >>
Extremes      == << "v", "^" >>
MissingSymbol == "-"

\* line[ : hour ] + symbol + line[ hour+1 : ]
Splice(line, hour, symbol) ==
    SubSeq(line, 1, Min(hour, Len(line))) \o <<symbol>> \o SubSeq(line, hour + 2, Len(line))

\* lines[i] = symbolLine, for a row index i counted from 0
SetRow(grid, i, symbolLine) == [grid EXCEPT ![i + 1] = symbolLine]

\* line[ hour ]
Cell(line, hour) == line[hour + 1]

RECURSIVE AboveLoop(_, _, _, _)
\* the while loop of _AddSymbolAbove, from row i on
AboveLoop(grid, hour, symbol, i) ==
    IF ~ (i < Len(grid) - 1) THEN grid
    ELSE LET line == grid[i + 1]
             next == grid[i + 2]
         IN  IF Cell(line, hour) = Blank /\ Cell(next, hour) # Blank
             THEN SetRow(grid, i, Splice(line, hour, symbol))
             ELSE IF i = Len(grid) - 2
             THEN SetRow(grid, Len(grid) - 1, Splice(next, hour, symbol))
             ELSE AboveLoop(grid, hour, symbol, i + 1)

RECURSIVE AboveLoopNoLast(_, _, _, _)
\* the loop of _AddSymbolAbove without its "last possible line" case
AboveLoopNoLast(grid, hour, symbol, i) ==
    IF ~ (i < Len(grid) - 1) THEN grid
    ELSE LET line == grid[i + 1]
             next == grid[i + 2]
         IN  IF Cell(line, hour) = Blank /\ Cell(next, hour) # Blank
             THEN SetRow(grid, i, Splice(line, hour, symbol))
             ELSE AboveLoopNoLast(grid, hour, symbol, i + 1)

AddSymbolAboveNoLast(grid, hour, symbol) ==
    IF ~ (0 <= hour /\ hour < Len(grid[1])) THEN grid
    ELSE IF Len(grid) = 1
    THEN SetRow(grid, 0, Splice(grid[1], hour, symbol))
    ELSE AboveLoopNoLast(grid, hour, symbol, 0)

RECURSIVE AboveLoopUp(_, _, _, _)
\* the search of _AddSymbolAbove run from the bottom row up
AboveLoopUp(grid, hour, symbol, i) ==
    IF i < 0 THEN SetRow(grid, Len(grid) - 1, Splice(grid[Len(grid)], hour, symbol))
    ELSE IF Cell(grid[i + 1], hour) = Blank /\ Cell(grid[i + 2], hour) # Blank
    THEN SetRow(grid, i, Splice(grid[i + 1], hour, symbol))
    ELSE AboveLoopUp(grid, hour, symbol, i - 1)

AddSymbolAboveFromBottom(grid, hour, symbol) ==
    IF ~ (0 <= hour /\ hour < Len(grid[1])) THEN grid
    ELSE IF Len(grid) = 1
    THEN SetRow(grid, 0, Splice(grid[1], hour, symbol))
    ELSE AboveLoopUp(grid, hour, symbol, Len(grid) - 2)

\* Graph._AddSymbolAbove
AddSymbolAbove(grid, hour, symbol) ==
    IF ~ (0 <= hour /\ hour < Len(grid[1])) THEN grid
    ELSE IF Len(grid) = 1
    THEN SetRow(grid, 0, Splice(grid[1], hour, symbol))
    ELSE AboveLoop(grid, hour, symbol, 0)

RECURSIVE BelowLoop(_, _, _, _)
\* the while loop of _AddSymbolBelow, from row i down
BelowLoop(grid, hour, symbol, i) ==
    IF ~ (i > 0) THEN grid
    ELSE LET iMax == Len(grid) - 2
             prev == grid[i + 2]
             cur  == grid[i + 1]
             next == grid[i]
         IN  IF i = iMax /\ Cell(cur, hour) # Blank /\ Cell(next, hour) = Blank
             THEN SetRow(grid, i + 1, Splice(prev, hour, symbol))
             ELSE IF /\ Cell(prev, hour) # Blank /\ Cell(cur, hour) # Blank
                     /\ Cell(next, hour) = Blank
             THEN SetRow(grid, i + 1, Splice(prev, hour, symbol))
             ELSE IF i = 1
             THEN IF Cell(next, hour) \in {Blank, FullBlock}
                  THEN SetRow(grid, 0, Splice(next, hour, symbol))
                  ELSE SetRow(grid, 1, Splice(cur, hour, symbol))
             ELSE BelowLoop(grid, hour, symbol, i - 1)

RECURSIVE BelowLoopInRow(_, _, _, _)
\* the loop of _AddSymbolBelow writing in the row it stands on
BelowLoopInRow(grid, hour, symbol, i) ==
    IF ~ (i > 0) THEN grid
    ELSE LET prev == grid[i + 2]
             cur  == grid[i + 1]
             next == grid[i]
         IN  IF /\ Cell(prev, hour) # Blank /\ Cell(cur, hour) # Blank
                /\ Cell(next, hour) = Blank
             THEN SetRow(grid, i, Splice(cur, hour, symbol))
             ELSE IF i = 1
             THEN IF Cell(next, hour) = Blank
                  THEN SetRow(grid, 0, Splice(next, hour, symbol))
                  ELSE SetRow(grid, 1, Splice(cur, hour, symbol))
             ELSE BelowLoopInRow(grid, hour, symbol, i - 1)

AddSymbolBelowInRow(grid, hour, symbol) ==
    IF ~ (0 <= hour /\ hour < Len(grid[1])) THEN grid
    ELSE IF Len(grid) = 1
    THEN SetRow(grid, 0, Splice(grid[1], hour, symbol))
    ELSE IF Len(grid) = 2
    THEN IF Cell(grid[1], hour) = Blank
         THEN SetRow(grid, 0, Splice(grid[1], hour, symbol))
         ELSE SetRow(grid, 1, Splice(grid[2], hour, symbol))
    ELSE BelowLoopInRow(grid, hour, symbol, Len(grid) - 2)

\* Graph._AddSymbolBelow
AddSymbolBelow(grid, hour, symbol) ==
    IF ~ (0 <= hour /\ hour < Len(grid[1])) THEN grid
    ELSE IF Len(grid) = 1
    THEN SetRow(grid, 0, Splice(grid[1], hour, symbol))
    ELSE IF Len(grid) = 2
    THEN IF Cell(grid[1], hour) \in {Blank, FullBlock}
         THEN SetRow(grid, 0, Splice(grid[1], hour, symbol))
         ELSE SetRow(grid, 1, Splice(grid[2], hour, symbol))
    ELSE BelowLoop(grid, hour, symbol, Len(grid) - 2)

RECURSIVE MissingLoop(_, _, _, _)
\* the while loop of _AddMissingSymbol, from column hour on
MissingLoop(pos, neg, prices, hour) ==
    IF ~ (hour < Len(prices)) THEN <<pos, neg>>
    ELSE IF prices[hour + 1] = Missing
    THEN IF Len(pos) > 1
         THEN MissingLoop( SetRow(pos, Len(pos) - 1,
                                  Splice(pos[Len(pos)], hour, MissingSymbol)),
                           neg, prices, hour + 1 )
         ELSE MissingLoop( pos,
                           SetRow(neg, 0, Splice(neg[1], hour, MissingSymbol)),
                           prices, hour + 1 )
    ELSE MissingLoop(pos, neg, prices, hour + 1)

RECURSIVE MissingLoopShifted(_, _, _, _)
\* the loop of _AddMissingSymbol writing one column to the right
MissingLoopShifted(pos, neg, prices, hour) ==
    IF ~ (hour < Len(prices)) THEN <<pos, neg>>
    ELSE IF prices[hour + 1] = Missing
    THEN IF Len(pos) > 1
         THEN MissingLoopShifted( SetRow(pos, Len(pos) - 1,
                                  Splice(pos[Len(pos)], hour + 1, MissingSymbol)),
                           neg, prices, hour + 1 )
         ELSE MissingLoopShifted( pos,
                           SetRow(neg, 0, Splice(neg[1], hour + 1, MissingSymbol)),
                           prices, hour + 1 )
    ELSE MissingLoopShifted(pos, neg, prices, hour + 1)

AddMissingSymbolShifted(grids, prices) ==
    MissingLoopShifted(grids[1], grids[2], prices, 0)

\* Graph._AddMissingSymbol
AddMissingSymbol(grids, prices) ==
    MissingLoop(grids[1], grids[2], prices, 0)

(***************************************************************************)
(* SpecMarker: one placement call on a pair of padded grids                *)
(***************************************************************************)

MaxCells == 8

\* Cells of the rows before any marker is placed.  Above the axis only
\* blank / non-blank matters to the placement; below it the code also
\* tells the full block from the other bar characters.
PosCells == {Blank, FullBlock}
NegCells == {Blank, HalfBlock, FullBlock}

Grids(rows, width, cells) == [1..rows -> [1..width -> cells]]

GridShapes ==
    { sh \in (1..MaxCells) \X (1..MaxCells) \X (1..MaxCells) :
         (sh[1] + sh[2]) * sh[3] <= MaxCells }

Width(grid) == Len(grid[1])

\* what a window column holds as far as _AddMissingSymbol can tell
PricePresence == { Missing, Known(0) }

NoCall == [op |-> None]

InitMarker ==
    /\ \E sh \in GridShapes :
          lines \in Grids(sh[1], sh[3], PosCells) \X Grids(sh[2], sh[3], NegCells)
    /\ lastCall = NoCall
    /\ IdleLayout /\ IdleScaler /\ IdleDst /\ IdleOther

Hours(grid) == (-1)..Width(grid)

\* pos = self._AddSymbolAbove( pos, index, symbol )
PlaceAbove ==
    /\ lastCall = NoCall
    /\ \E hour \in Hours(lines[1]), symbol \in {Carets[1], Extremes[2]} :
          /\ lines' = << AddSymbolAbove(lines[1], hour, symbol), lines[2] >>
          /\ lastCall' = [op |-> "above", hour |-> hour, symbol |-> symbol,
                          before |-> lines]
    /\ UNCHANGED <<layoutVars, scalerVars, dstVars, otherVars>>

\* neg = self._AddSymbolBelow( neg, index, symbol )
PlaceBelow ==
    /\ lastCall = NoCall
    /\ \E hour \in Hours(lines[2]), symbol \in {Carets[2], Extremes[1]} :
          /\ lines' = << lines[1], AddSymbolBelow(lines[2], hour, symbol) >>
          /\ lastCall' = [op |-> "below", hour |-> hour, symbol |-> symbol,
                          before |-> lines]
    /\ UNCHANGED <<layoutVars, scalerVars, dstVars, otherVars>>

\* lines = self._AddMissingSymbol( lines, visiblePrices ); the window is as
\* wide as the rows drawn from it
PlaceMissing ==
    /\ lastCall = NoCall
    /\ \E prices \in [1..Width(lines[1]) -> PricePresence] :
          /\ lines' = AddMissingSymbol(lines, prices)
          /\ lastCall' = [op |-> "missing", prices |-> prices,
                          symbol |-> MissingSymbol, before |-> lines]
    /\ UNCHANGED <<layoutVars, scalerVars, dstVars, otherVars>>

NextMarker == PlaceAbove \/ PlaceBelow \/ PlaceMissing

SpecMarker == InitMarker /\ [][NextMarker]_vars

(***************************************************************************)
(* Properties of the marker placement (SpecMarker)                         *)
(***************************************************************************)

\* The grid a call of _AddSymbolAbove / _AddSymbolBelow was given and the
\* grid it returned.
SideOf(op) == IF op = "above" THEN 1 ELSE 2
GridBefore == lastCall.before[SideOf(lastCall.op)]
GridAfter  == lines[SideOf(lastCall.op)]

\* The cells <<row, column>> of a grid that hold the symbol, counted from 1
CellsWith(grid, symbol) ==
    { rc \in (1..Len(grid)) \X (1..MaxCells + 1) :
         rc[2] <= Len(grid[rc[1]]) /\ grid[rc[1]][rc[2]] = symbol }

\* C8: when the hour h is a column of the grid, after _AddSymbolAbove
\* (_AddSymbolBelow) has placed a glyph the grid did not hold before,
\* exactly one cell holds the glyph and that cell is in column h; when h
\* is outside [0, width) the grid is returned unchanged.
C8_CaretBounds ==
    lastCall.op \in {"above", "below"} =>
        /\ CellsWith(GridBefore, lastCall.symbol) = {}
        /\ IF 0 <= lastCall.hour /\ lastCall.hour < Width(GridBefore)
           THEN \E row \in 1..Len(GridAfter) :
                   CellsWith(GridAfter, lastCall.symbol) = { <<row, lastCall.hour + 1>> }
           ELSE GridAfter = GridBefore

\* C8 witness: the upper caret put in column 1 straight above a bar, in
\* the middle row of three.
C8_Witness ==
    /\ lastCall.op = "above" /\ lastCall.hour = 1
    /\ lastCall.before[1] = << <<Blank, Blank>>, <<Blank, Blank>>, <<FullBlock, FullBlock>> >>
    /\ lines[1] = << <<Blank, Blank>>, <<Blank, Carets[1]>>, <<FullBlock, FullBlock>> >>

SameShape(before, after) ==
    /\ Len(after) = Len(before)
    /\ \A r \in 1..Len(before) : Len(after[r]) = Len(before[r])

\* The cells in which two grids of the same shape differ
Changed(before, after) ==
    { rc \in (1..Len(before)) \X (1..Width(before)) :
         before[rc[1]][rc[2]] # after[rc[1]][rc[2]] }

\* The columns (from 1) a placement call may write to
TargetColumns ==
    IF lastCall.op = "missing"
    THEN { c \in DOMAIN lastCall.prices : lastCall.prices[c] = Missing }
    ELSE { lastCall.hour + 1 }

\* C9: a call of _AddSymbolAbove, _AddSymbolBelow or _AddMissingSymbol
\* keeps the number of rows and the width of every row and changes no cell
\* outside its target column(s); _AddSymbolAbove changes at most one cell
\* of the positive rows and nothing else, _AddSymbolBelow at most one cell
\* of the negative rows and nothing else.
C9_Frame ==
    lastCall.op # None =>
        /\ \A side \in 1..2 :
              /\ SameShape(lastCall.before[side], lines[side])
              /\ \A rc \in Changed(lastCall.before[side], lines[side]) :
                    rc[2] \in TargetColumns
        /\ lastCall.op = "above" =>
              /\ Cardinality(Changed(lastCall.before[1], lines[1])) <= 1
              /\ lines[2] = lastCall.before[2]
        /\ lastCall.op = "below" =>
              /\ Cardinality(Changed(lastCall.before[2], lines[2])) <= 1
              /\ lines[1] = lastCall.before[1]

\* C9 witness: the lower caret of column 0 written under a negative bar of
\* a three-row grid, the neighbouring column and the positive row untouched.
C9_Witness ==
    /\ lastCall.op = "below" /\ lastCall.hour = 0
    /\ lastCall.before[2] = << <<Blank, Blank>>, <<HalfBlock, FullBlock>>, <<Blank, Blank>> >>
    /\ lines[2] = << <<Blank, Blank>>, <<HalfBlock, FullBlock>>, <<Carets[2], Blank>> >>
    /\ lines[1] = lastCall.before[1]

\* the placement call was given a column of the grid
InRange == 0 <= lastCall.hour /\ lastCall.hour < Width(GridBefore)

\* cell (row, lastCall.hour) of the grid given to the call, rows from 0
Before(row) == Cell(GridBefore[row + 1], lastCall.hour)

\* the grid given to the call with the symbol written in one row of its column
WrittenIn(row) ==
    SetRow(GridBefore, row, Splice(GridBefore[row + 1], lastCall.hour, lastCall.symbol))

Largest(S)  == CHOOSE i \in S : \A j \in S : j <= i
Smallest(S) == CHOOSE i \in S : \A j \in S : i <= j

\* rows i, from 0 to the second-to-last, blank in the column with a
\* non-blank cell right below
BlankAboveBar ==
    { i \in 0..(Len(GridBefore) - 2) : Before(i) = Blank /\ Before(i + 1) # Blank }

\* C22: for a column h of the grid, _AddSymbolAbove writes the symbol in
\* the smallest row i with cell (i, h) blank and cell (i+1, h) non-blank;
\* when no row up to the second-to-last is such a row it writes in the
\* last row; a grid of one row gets the symbol in that row.
C22_UpperSearch ==
    (lastCall.op = "above" /\ InRange) =>
        GridAfter = IF Len(GridBefore) = 1 THEN WrittenIn(0)
                    ELSE IF BlankAboveBar # {} THEN WrittenIn(Smallest(BlankAboveBar))
                    ELSE WrittenIn(Len(GridBefore) - 1)

\* C22 witness: a column with two blank cells that stand above a bar; the
\* upper one, in row 1, gets the symbol
C22_Witness ==
    /\ lastCall.op = "above" /\ InRange
    /\ BlankAboveBar = {1, 3}
    /\ GridAfter = WrittenIn(1)

\* C22, second case: the bar fills the column and the last row is written
C22_WitnessLastRow ==
    /\ lastCall.op = "above" /\ InRange
    /\ Len(GridBefore) >= 3 /\ BlankAboveBar = {}
    /\ GridAfter = WrittenIn(Len(GridBefore) - 1)

\* rows r, from 1 to the second-to-last, non-blank in the column, with a
\* non-blank cell below and a blank cell above
BarEndRows ==
    { r \in 1..(Len(GridBefore) - 2) :
         Before(r) # Blank /\ Before(r + 1) # Blank /\ Before(r - 1) = Blank }

\* C23 as the specification has it: in a grid of three rows or more the
\* symbol is written in the first row, from the bottom, whose cell and the
\* cell below are non-blank and the cell above blank; in a grid of two
\* rows it is written in row 0 when that cell is blank and in row 1
\* otherwise; in a grid of one row in row 0.
C23_LowerSearchInRow ==
    (lastCall.op = "below" /\ InRange) =>
        /\ (Len(GridBefore) >= 3 /\ BarEndRows # {}) =>
               GridAfter = WrittenIn(Largest(BarEndRows))
        /\ Len(GridBefore) = 2 =>
               GridAfter = IF Before(0) = Blank THEN WrittenIn(0) ELSE WrittenIn(1)
        /\ Len(GridBefore) = 1 => GridAfter = WrittenIn(0)

\* rows i, from 1 to the second-to-last, at which the loop of
\* _AddSymbolBelow stops: non-blank in the column, blank above, and either
\* the second-to-last row or non-blank below
StopRows ==
    { i \in 1..(Len(GridBefore) - 2) :
         /\ Before(i) # Blank /\ Before(i - 1) = Blank
         /\ (i = Len(GridBefore) - 2 \/ Before(i + 1) # Blank) }

\* C23: for a column h of a grid of three rows or more _AddSymbolBelow
\* writes the symbol in the row BELOW the first row i, from the bottom,
\* whose cell is non-blank and the cell above blank and which is the
\* second-to-last row or has a non-blank cell below; when there is no such
\* row, and in a grid of two rows, it writes in row 0 if that cell is
\* blank or a full block and in row 1 otherwise; in a grid of one row it
\* writes in row 0.
C23_LowerSearch ==
    (lastCall.op = "below" /\ InRange) =>
        GridAfter = IF Len(GridBefore) = 1 THEN WrittenIn(0)
                    ELSE IF Len(GridBefore) >= 3 /\ StopRows # {}
                    THEN WrittenIn(Largest(StopRows) + 1)
                    ELSE IF Before(0) \in {Blank, FullBlock} THEN WrittenIn(0)
                    ELSE WrittenIn(1)

\* C23 witness: rows 1 and 2 of four hold the bar under a blank row 0 and
\* the row below, row 3, is non-blank: the symbol replaces the cell of
\* row 2, not of row 1
C23_Witness ==
    /\ lastCall.op = "below" /\ InRange
    /\ Len(GridBefore) = 4
    /\ Before(0) = Blank /\ Before(1) = HalfBlock
    /\ Before(2) = FullBlock /\ Before(3) = FullBlock
    /\ GridAfter = WrittenIn(2)

(***************************************************************************)
(* DST-aware hour indexer                                                  *)
(***************************************************************************)

\* int( n / d ) for d > 0: the quotient truncated towards zero
Trunc(n, d) == IF n >= 0 THEN n \div d ELSE -((-n) \div d)

\* A variant of _CurrentHourIndex that adds delta itself as the correction
CurrentHourIndexSignedDelta(hours, now, utc, normal) ==
    IF hours # 24
    THEN LET timezone == (now - utc) % 24
             offset   == timezone - normal
             delta    == hours - 24
         IN  Trunc(2 * now + 2 * delta - 2 * offset, 2)
    ELSE now

\* A variant of _CurrentHourIndex without the special case of a 24-hour day
CurrentHourIndexNoOrdinaryDay(hours, now, utc, normal) ==
    LET timezone == (now - utc) % 24
        offset   == timezone - normal
        delta    == hours - 24
    IN  Trunc(2 * now + (Abs(delta) + delta) - 2 * offset, 2)

\* _PriceDisplayWindow._CurrentHourIndex, with now.hour, utc.hour and
\* self._normalTimezone as arguments.  index = now.hour + (abs(delta) +
\* delta)/2 - offset is formed over the common denominator 2.
CurrentHourIndex(hours, now, utc, normal) ==
    IF hours # 24
    THEN LET timezone == (now - utc) % 24
             offset   == timezone - normal
             delta    == hours - 24
         IN  Trunc(2 * now + (Abs(delta) + delta) - 2 * offset, 2)
    ELSE now

(***************************************************************************)
(* SpecDst: reading the hour index at some moment of a day                 *)
(***************************************************************************)

MaxTimezone == 3

HoursOfClock == 0..23
DayLengths   == {23, 24, 25}

InitDst ==
    /\ nowHour \in HoursOfClock
    /\ utcHour \in HoursOfClock
    /\ hoursInDay \in DayLengths
    /\ normalTimezone \in (-MaxTimezone)..MaxTimezone
    /\ index = Missing
    /\ IdleLayout /\ IdleScaler /\ IdleMarker /\ IdleOther

\* index = self._CurrentHourIndex( hoursInDay )
ReadCurrentHourIndex ==
    /\ index = Missing
    /\ index' = Known(CurrentHourIndex(hoursInDay, nowHour, utcHour, normalTimezone))
    /\ UNCHANGED <<nowHour, utcHour, hoursInDay, normalTimezone>>
    /\ UNCHANGED <<layoutVars, scalerVars, markerVars, otherVars>>

NextDst == ReadCurrentHourIndex

SpecDst == InitDst /\ [][NextDst]_vars

(***************************************************************************)
(* Properties of the hour indexer (SpecDst)                                *)
(***************************************************************************)

\* The live offset of local time from UTC in hours
TimezoneOffsetHours == (nowHour - utcHour) % 24

\* C10: on a day of 23 or 25 hours _CurrentHourIndex returns
\* now.hour + max(hoursInDay - 24, 0) - (timezoneOffsetHours - normalTimezone)
\* for every wall-clock hour and live offset; with the live offset equal to
\* normalTimezone and now.hour = 3 that is 3 on a 23-hour day and 4 on a
\* 25-hour day.
C10_TransitionDayIndex ==
    (index # Missing /\ hoursInDay \in {23, 25}) =>
        /\ ValueOf(index) = nowHour + Max(hoursInDay - 24, 0)
                               - (TimezoneOffsetHours - normalTimezone)
        /\ (TimezoneOffsetHours = normalTimezone /\ nowHour = 3) =>
              /\ hoursInDay = 23 => ValueOf(index) = 3
              /\ hoursInDay = 25 => ValueOf(index) = 4

\* C10 witness: 03 o'clock of a 25-hour day in a zone whose normal offset
\* of +2 is also the live offset; the index read is 4.
C10_Witness ==
    /\ hoursInDay = 25 /\ nowHour = 3 /\ utcHour = 1 /\ normalTimezone = 2
    /\ index = Known(4)

\* C11 as stated: on a 24-hour day the index is computed by the same
\* formula as on a transition day, now.hour - (timezoneOffsetHours -
\* normalTimezone), for every live timezone offset.
C11_OrdinaryDayFormula ==
    (index # Missing /\ hoursInDay = 24) =>
        ValueOf(index) = nowHour - (TimezoneOffsetHours - normalTimezone)

\* C11 amended: on a 24-hour day the index is now.hour itself, whatever
\* the live timezone offset is; the offset difference is not subtracted.
C11_OrdinaryDayIsHour ==
    (index # Missing /\ hoursInDay = 24) => ValueOf(index) = nowHour

\* C11 witness: 14 o'clock of a 24-hour summer day, live offset +3 against a
\* normal offset of +2; the index read is 14.
C11_Witness ==
    /\ hoursInDay = 24 /\ nowHour = 14 /\ utcHour = 11 /\ normalTimezone = 2
    /\ index = Known(14)

(***************************************************************************)
(* SpecGeometry: the operations of BBox and _FitsInside on bounded boxes   *)
(***************************************************************************)

MaxCoord == 2
MaxSide  == 2

Boxes ==
    { BBox(Size(h, w), Point(y, x)) :
        h \in 0..MaxSide, w \in 0..MaxSide, y \in 0..MaxCoord, x \in 0..MaxCoord }

\* A variant of BBox.__add__ that keeps the top edge of the left operand
BBoxAddOwnTop(self, bb) ==
    LET bottom == Max(self.bottom, bb.bottom)
        left   == Min(self.left, bb.left)
        right  == Max(self.right, bb.right)
        top    == self.top
    IN  BBox(Size(bottom - top, right - left), Point(top, left))

\* BBox.__add__
BBoxAdd(self, bb) ==
    LET bottom == Max(self.bottom, bb.bottom)
        left   == Min(self.left, bb.left)
        right  == Max(self.right, bb.right)
        top    == Min(self.top, bb.top)
        y      == top
        x      == left
        pos    == Point(y, x)
        height == bottom - top
        width  == right - left
    IN  BBox(Size(height, width), pos)

InitGeometry ==
    /\ boxA \in Boxes /\ boxB \in Boxes
    /\ geo = [op |-> None]
    /\ IdleLater
    /\ IdleGraphics /\ IdleStats /\ IdleCollection /\ IdleOptions
    /\ IdleRender /\ IdleApp

\* `boxB in boxA`
BBoxContains ==
    /\ geo.op = None
    /\ geo' = [op |-> "contains", value |-> Contains(boxA, boxB)]
    /\ UNCHANGED <<boxA, boxB>>
    /\ UNCHANGED <<graphicsVars, laterVars,
                   statsVars, collectionVars, optionVars,
                   renderVars, appVars>>

\* `boxA + boxB`, with the operands exchanged, and `boxA + boxA`
BBoxUnion ==
    /\ geo.op = None
    /\ geo' = [op |-> "add", sum |-> BBoxAdd(boxA, boxB),
               mirrored |-> BBoxAdd(boxB, boxA), doubled |-> BBoxAdd(boxA, boxA)]
    /\ UNCHANGED <<boxA, boxB>>
    /\ UNCHANGED <<graphicsVars, laterVars,
                   statsVars, collectionVars, optionVars,
                   renderVars, appVars>>

\* _DisplayWindow._FitsInside( boxB, parent ) for a parent window whose
\* getmaxyx() is the size of boxA
WindowFitsInside ==
    /\ geo.op = None
    /\ geo' = [op |-> "fits",
               err |-> FitsInside(boxB, Size(boxA.height, boxA.width))]
    /\ UNCHANGED <<boxA, boxB>>
    /\ UNCHANGED <<graphicsVars, laterVars,
                   statsVars, collectionVars, optionVars,
                   renderVars, appVars>>

NextGeometry == BBoxContains \/ BBoxUnion \/ WindowFitsInside

SpecGeometry == InitGeometry /\ [][NextGeometry]_vars

(***************************************************************************)
(* Properties of the geometry primitives                                   *)
(***************************************************************************)

\* a's edges lie on or outside b's edges, from positions and sizes
EdgesWithin(a, b) ==
    /\ a.y <= b.y
    /\ a.x <= b.x
    /\ a.y + a.height >= b.y + b.height
    /\ a.x + a.width >= b.x + b.width

\* C12: `B in A` is true exactly when A.top <= B.top, A.left <= B.left,
\* A.bottom >= B.bottom and A.right >= B.right, the edges being inclusive and
\* bottom = y + height, right = x + width; in particular a box whose right
\* or bottom edge lies one unit beyond A's is not contained.
C12_Containment ==
    geo.op = "contains" =>
        /\ geo.value = EdgesWithin(boxA, boxB)
        /\ (boxB.x + boxB.width = boxA.x + boxA.width + 1) => ~ geo.value
        /\ (boxB.y + boxB.height = boxA.y + boxA.height + 1) => ~ geo.value

\* C12 witness: a box touching A's right and bottom edge is found contained
C12_Witness ==
    /\ geo.op = "contains" /\ geo.value
    /\ boxA = BBox(Size(2, 2), Point(0, 0))
    /\ boxB = BBox(Size(1, 1), Point(1, 1))

\* every candidate box the union has to be compared with
Enclosures ==
    { BBox(Size(h, w), Point(y, x)) :
        h \in 0..(MaxSide + MaxCoord), w \in 0..(MaxSide + MaxCoord),
        y \in 0..MaxCoord, x \in 0..MaxCoord }

\* C13: A + B contains both A and B, every box that contains both also
\* contains A + B, A + B equals B + A, and A + A equals A.
C13_Union ==
    geo.op = "add" =>
        /\ EdgesWithin(geo.sum, boxA)
        /\ EdgesWithin(geo.sum, boxB)
        /\ \A c \in Enclosures :
              (EdgesWithin(c, boxA) /\ EdgesWithin(c, boxB))
                  => EdgesWithin(c, geo.sum)
        /\ geo.sum = geo.mirrored
        /\ geo.doubled = boxA

\* C13 witness: two disjoint boxes whose union is larger than both
C13_Witness ==
    /\ geo.op = "add"
    /\ boxA = BBox(Size(1, 1), Point(2, 0))
    /\ boxB = BBox(Size(1, 2), Point(0, 1))
    /\ geo.sum = BBox(Size(3, 3), Point(0, 0))

\* C15 as stated: _FitsInside raises WindowSizeError exactly when the
\* requested box is taller or wider than the parent, otherwise
\* WindowPositionError exactly when the box is not contained in the parent's
\* box at the origin, otherwise nothing; a contained box is never rejected.
C15_FitsInsideClassification ==
    geo.op = "fits" =>
        LET tooLarge  == boxB.height > boxA.height \/ boxB.width > boxA.width
            parBB     == BBox(Size(boxA.height, boxA.width), Point(0, 0))
            contained == EdgesWithin(parBB, boxB)
        IN  /\ (geo.err = WindowSizeError) <=> tooLarge
            /\ (geo.err = WindowPositionError) <=> (~ tooLarge /\ ~ contained)
            /\ contained => geo.err = NoError

(***************************************************************************)
(* PriceData (datahandler.py): a price series with its statistics.  Prices *)
(* are whole numbers here; the average is kept in hundredths, which is     *)
(* what round( average, 2 ) leaves of it.                                  *)
(***************************************************************************)

\* the filtered list of PriceData.__init__
Filtered(prices) == SelectSeq(prices, LAMBDA price : price # Missing)

\* sum( filtered )
RECURSIVE SumOf(_)
SumOf(filtered) ==
    IF filtered = << >> THEN 0
    ELSE ValueOf(Head(filtered)) + SumOf(Tail(filtered))

\* min( filtered ) and max( filtered ) of a non-empty list
MinOf(filtered) ==
    CHOOSE v \in { ValueOf(filtered[i]) : i \in 1..Len(filtered) } :
        \A i \in 1..Len(filtered) : v <= ValueOf(filtered[i])
MaxOf(filtered) ==
    CHOOSE v \in { ValueOf(filtered[i]) : i \in 1..Len(filtered) } :
        \A i \in 1..Len(filtered) : v >= ValueOf(filtered[i])

\* round( n / d, 2 ) in hundredths
RoundTo2(n, d) == Round(100 * n, d)

\* A variant of PriceData.__init__ that counts a missing price as zero
PriceDataNullAsZero(prices) ==
    LET filled == [i \in 1..Len(prices) |->
                      IF prices[i] = Missing THEN Known(0) ELSE prices[i]]
    IN  IF filled # << >>
        THEN [hasData |-> TRUE, low |-> Known(MinOf(filled)),
              high |-> Known(MaxOf(filled)),
              average |-> Known(RoundTo2(SumOf(filled), Len(filled)))]
        ELSE [hasData |-> FALSE, low |-> Missing, high |-> Missing,
              average |-> Missing]

\* PriceData.__init__: the attributes next to _data
PriceData(prices) ==
    LET filtered == Filtered(prices)
    IN  IF filtered # << >>
        THEN [hasData |-> TRUE, low |-> Known(MinOf(filtered)),
              high |-> Known(MaxOf(filtered)),
              average |-> Known(RoundTo2(SumOf(filtered), Len(filtered)))]
        ELSE [hasData |-> FALSE, low |-> Missing, high |-> Missing,
              average |-> Missing]

\* a bound of a slice of a sequence of n entries: a negative bound counts
\* from the end, and every bound is brought into 0..n
SliceBound(b, n) == IF b < 0 THEN Max(b + n, 0) ELSE Min(b, n)

\* data[ start : stop ]; Missing stands for an omitted bound
Slice(data, start, stop) ==
    LET from == IF start = Missing THEN 0 ELSE SliceBound(ValueOf(start), Len(data))
        to   == IF stop = Missing THEN Len(data) ELSE SliceBound(ValueOf(stop), Len(data))
    IN  IF from >= to THEN << >> ELSE SubSeq(data, from + 1, to)

(***************************************************************************)
(* SpecStats: a PriceData object, its slices and its concatenations        *)
(***************************************************************************)

MaxSeries == 3
MaxEntry  == 5

NullableEntries == { Known(v) : v \in (-MaxEntry)..MaxEntry } \cup {Missing}

\* the series of the specification's example
ExampleSeries == { << Missing, Known(5), Missing, Known(-3) >> }

SeriesUpTo(n) == UNION { [1..k -> NullableEntries] : k \in 0..n }

Series == SeriesUpTo(MaxSeries) \cup ExampleSeries

SliceBounds == { Known(k) : k \in 0..MaxSeries } \cup {Missing}

InitStats ==
    /\ entries \in Series
    /\ statistics = PriceData(entries)
    /\ derivation = "constructor"
    /\ IdleLater
    /\ IdleGraphics /\ IdleGeometry /\ IdleCollection /\ IdleOptions
    /\ IdleRender /\ IdleApp

\* PriceData.__getitem__ with a slice: the object is replaced by its slice
PriceDataGetItem ==
    /\ \E start \in SliceBounds, stop \in SliceBounds :
          LET data == Slice(entries, start, stop)
          IN  /\ entries' = data
              /\ statistics' = PriceData(data)
    /\ derivation' = "slice"
    /\ UNCHANGED <<graphicsVars, laterVars,
                   geometryVars, collectionVars, optionVars,
                   renderVars, appVars>>

\* PriceData.__add__: the object is replaced by its sum with another one
PriceDataAdd ==
    /\ \E obj \in SeriesUpTo(MaxSeries - Len(entries)) :
          /\ entries' = entries \o obj
          /\ statistics' = PriceData(entries \o obj)
    /\ derivation' = "add"
    /\ UNCHANGED <<graphicsVars, laterVars,
                   geometryVars, collectionVars, optionVars,
                   renderVars, appVars>>

NextStats == PriceDataGetItem \/ PriceDataAdd

SpecStats == InitStats /\ [][NextStats]_vars

(***************************************************************************)
(* Properties of the price statistics                                      *)
(***************************************************************************)

\* the positions of the entries that are not null
KnownAt == { i \in 1..Len(entries) : entries[i] # Missing }

RECURSIVE Total(_)
Total(S) ==
    IF S = {} THEN 0
    ELSE LET i == CHOOSE j \in S : TRUE
         IN  ValueOf(entries[i]) + Total(S \ {i})

\* C14: a PriceData is falsy, with low, high and average unset, exactly when
\* every entry is null; otherwise low and high are the least and the
\* greatest of the non-null entries and average is their mean rounded to two
\* decimals ([None, 5, None, -3] gives -3, 5 and 1.0); this holds of
\* slices and concatenations as well, whose statistics are those of their
\* own entries.
C14_NullSafeStatistics ==
    /\ statistics.hasData = (KnownAt # {})
    /\ KnownAt = {} =>
          /\ statistics.low = Missing /\ statistics.high = Missing
          /\ statistics.average = Missing
    /\ KnownAt # {} =>
          /\ \E i \in KnownAt : entries[i] = statistics.low
          /\ \A i \in KnownAt : ValueOf(statistics.low) <= ValueOf(entries[i])
          /\ \E i \in KnownAt : entries[i] = statistics.high
          /\ \A i \in KnownAt : ValueOf(statistics.high) >= ValueOf(entries[i])
          /\ statistics.average # Missing
          /\ 2 * Abs(100 * Total(KnownAt)
                       - ValueOf(statistics.average) * Cardinality(KnownAt))
                <= Cardinality(KnownAt)
    /\ entries = << Missing, Known(5), Missing, Known(-3) >> =>
          /\ statistics.low = Known(-3) /\ statistics.high = Known(5)
          /\ statistics.average = Known(100)

\* C14 witness: [None, 5] + [-3] has the statistics -3, 5 and 1.0
C14_Witness ==
    /\ derivation = "add"
    /\ entries = << Missing, Known(5), Known(-3) >>
    /\ statistics = [hasData |-> TRUE, low |-> Known(-3), high |-> Known(5),
                     average |-> Known(100)]

\* C14 witness of the null case: a slice without any price is falsy
C14_WitnessAllNull ==
    /\ derivation = "slice"
    /\ entries = << Missing, Missing >>
    /\ statistics = [hasData |-> FALSE, low |-> Missing, high |-> Missing,
                     average |-> Missing]

(***************************************************************************)
(* SpecCollection: one call of _Collection._AddElements on a constructed   *)
(* collection                                                              *)
(***************************************************************************)

MaxGrid     == 2
MaxSizeList == 3

\* the classes of the elements, the explicit sizes and the collections tried
CollectionClasses  == {"DetailsCurrent", "DetailsToday"}
CollectionRowSizes == {3, 5}
CollectionColSizes == {17, 20}
CollectionSizes    == {4, 8, 10} \X {17, 40, 60}
CollectionPaddings == { Size(0, 0), HorizontalDetailsPadding }
CollectionParents  == { Size(24, 80), Size(9, 30) }

\* rowSize / colSize: << >> when the argument is not given
SizeLists(sizes) == UNION { [1..n -> sizes] : n \in 0..MaxSizeList }

ElementGrids ==
    { [i \in 1..r |-> [j \in 1..c |-> class]] :
        r \in 1..MaxGrid, c \in 1..MaxGrid, class \in CollectionClasses }

\* _Collection.__init__ succeeded, _AddElements has not been called yet
InitCollection ==
    /\ \E elems \in ElementGrids, rowSize \in SizeLists(CollectionRowSizes),
          colSize \in SizeLists(CollectionColSizes), sz \in CollectionSizes,
          padding \in CollectionPaddings, parSize \in CollectionParents :
          /\ FitsInside(BBox(sz, Point(0, 0)), parSize) = NoError
          /\ coll = [ elems |-> elems, rowSize |-> rowSize, colSize |-> colSize,
                      size |-> sz, pos |-> Point(0, 0), padding |-> padding,
                      parSize |-> parSize ]
    /\ built = [err |-> None]
    /\ IdleLater
    /\ IdleGraphics /\ IdleGeometry /\ IdleStats /\ IdleOptions
    /\ IdleRender /\ IdleApp

\* self._AddElements( elems, colSize, rowSize )
CollectionAddElements ==
    /\ built.err = None
    /\ LET added == AddElements(coll.elems, coll.colSize, coll.rowSize, coll.pos,
                                coll.size, coll.padding, << >>, coll.parSize)
       IN  built' = [err |-> added.err, subs |-> added.wins]
    /\ UNCHANGED coll
    /\ UNCHANGED <<graphicsVars, laterVars,
                   geometryVars, statsVars, optionVars,
                   renderVars, appVars>>

NextCollection == CollectionAddElements

SpecCollection == InitCollection /\ [][NextCollection]_vars

(***************************************************************************)
(* Properties of _AddElements                                              *)
(***************************************************************************)

\* the explicit list q does not match count elements within the extent
ListMisfits(q, count, padding, extent) ==
    /\ q # << >>
    /\ \/ Len(q) # count
       \/ SumSizes(q) + (count - 1) * padding > extent

\* C16: _AddElements raises CollectionSizeError if and only if an explicit
\* row (column) size list is given whose length differs from the number of
\* element rows (columns) or whose sum plus (count - 1) * padding exceeds the
\* collection's height (width); when it is raised, no sub-panel of the
\* collection has been constructed.
C16_CollectionSizeError ==
    built.err # None =>
        /\ (built.err = CollectionSizeError) <=>
              \/ ListMisfits(coll.rowSize, Len(coll.elems),
                             coll.padding[1], coll.size[1])
              \/ ListMisfits(coll.colSize, Len(coll.elems[1]),
                             coll.padding[2], coll.size[2])
        /\ (built.err = CollectionSizeError) => built.subs = << >>

\* C16 witness: two rows of 5 lines with a padding of 1 line do not fit a
\* collection of 10 lines
C16_Witness ==
    /\ built.err = CollectionSizeError /\ built.subs = << >>
    /\ Len(coll.elems) = 2 /\ coll.rowSize = <<5, 5>> /\ coll.colSize = << >>
    /\ coll.padding = HorizontalDetailsPadding /\ coll.size[1] = 10

(***************************************************************************)
(* SpecOptions: a constructor reading its required keys from an option     *)
(* mapping.  Only the reading of the options is modelled; with every key   *)
(* present the constructor goes on (windows, layout), which the other      *)
(* specifications cover.                                                   *)
(***************************************************************************)

KeyError           == "KeyError"
TypeError          == "TypeError"
MissingOptionError == "MissingOptionError"

\* the KeyError of options[key]: args is the tuple ( key, )
RaiseKeyError(key) == [kind |-> KeyError, args |-> <<key>>]

\* MissingOptionError.__init__( option ) with a string: the message is
\* 'Missing option: ' + option
MissingOptionErrorOfString(option) ==
    [kind |-> MissingOptionError, option |-> option]

\* MissingOptionError.__init__( option ) with a tuple: the concatenation
\* 'Missing option: ' + option raises TypeError before the exception exists
MissingOptionErrorOfTuple(option) == [kind |-> TypeError]

\* the keys read with options[...], in the order the constructor reads them
AppKeys ==
    << "data.updateFrequency", "data.availableAt", "data.dateField",
       "data.priceField", "data.source", "caret.style.above",
       "caret.style.below", "price.low", "price.high", "caret.past_hours",
       "layout.preferred", "layout.reverse", "data.normalTimezone" >>
PriceDataHandlerKeys ==
    << "dateField", "priceWithTaxField", "priceNoTaxField", "source" >>
PriceDisplayWindowKeys == << "limits", "normalTimezone" >>
DetailWindowKeys ==
    << "day", "missing", "slowTerminal", "terminalDelay" >> \o PriceDisplayWindowKeys
\* PriceDisplay in the minimal layout: its own key, then those of the Graph
PriceDisplayKeys == << "preferred" >> \o PriceDisplayWindowKeys

DetailClasses ==
    {"DetailsCurrent", "DetailsNext", "DetailsToday", "DetailsTomorrow"}
PanelClasses == {"Graph", "PriceDisplay"} \cup DetailClasses
Constructors == {"App", "PriceDataHandler"} \cup PanelClasses

RequiredKeys(class) ==
    CASE class = "App"              -> AppKeys
      [] class = "PriceDataHandler" -> PriceDataHandlerKeys
      [] class = "Graph"            -> PriceDisplayWindowKeys
      [] class = "PriceDisplay"     -> PriceDisplayKeys
      [] class \in DetailClasses    -> DetailWindowKeys

\* the first options[key] that fails, as the KeyError it raises, or NoError
RECURSIVE ReadKeys(_, _)
ReadKeys(keys, present) ==
    IF keys = << >> THEN [kind |-> NoError]
    ELSE IF Head(keys) \notin present THEN RaiseKeyError(Head(keys))
    ELSE ReadKeys(Tail(keys), present)

\* the exception a constructor ends with when it reads its options:
\* App.__init__ and PriceDataHandler.__init__ catch the KeyError, the panels
\* do not
Construct(class, present) ==
    LET err == ReadKeys(RequiredKeys(class), present)
    IN  IF err.kind # KeyError THEN err
        ELSE CASE class = "App" -> MissingOptionErrorOfString(err.args[1])
               [] class = "PriceDataHandler" -> MissingOptionErrorOfTuple(err.args)
               [] OTHER -> err

KeysOf(class) ==
    { RequiredKeys(class)[i] : i \in 1..Len(RequiredKeys(class)) }

InitOptions ==
    /\ ctor \in Constructors
    /\ given \in SUBSET KeysOf(ctor)
    /\ raised = [kind |-> None]
    /\ IdleLater
    /\ IdleGraphics /\ IdleGeometry /\ IdleStats /\ IdleCollection
    /\ IdleRender /\ IdleApp

\* the constructor is called with the mapping
ConstructFromOptions ==
    /\ raised.kind = None
    /\ raised' = Construct(ctor, given)
    /\ UNCHANGED <<ctor, given>>
    /\ UNCHANGED <<graphicsVars, laterVars,
                   geometryVars, statsVars, collectionVars,
                   renderVars, appVars>>

NextOptions == ConstructFromOptions

SpecOptions == InitOptions /\ [][NextOptions]_vars

(***************************************************************************)
(* Properties of the option handling                                       *)
(***************************************************************************)

\* C17 as stated: constructing the application, a display panel or the data
\* handler from a mapping that lacks a required key fails with
\* MissingOptionError naming an absent key (the absent key, when one key is
\* absent), and with no other kind of error.
C17_MissingOption ==
    (raised.kind # None /\ given # KeysOf(ctor)) =>
        /\ raised.kind = MissingOptionError
        /\ raised.option \in KeysOf(ctor) \ given

\* What holds instead: only the application names the key in a
\* MissingOptionError; the panels end with the bare KeyError and the data
\* handler with a TypeError.
C17_OnlyAppReports ==
    (raised.kind # None /\ given # KeysOf(ctor)) =>
        /\ ctor = "App" =>
              /\ raised.kind = MissingOptionError
              /\ raised.option \in KeysOf(ctor) \ given
        /\ ctor \in PanelClasses =>
              /\ raised.kind = KeyError
              /\ raised.args[1] \in KeysOf(ctor) \ given
        /\ ctor = "PriceDataHandler" => raised.kind = TypeError

(***************************************************************************)
(* SpecRender: Update of a constructed panel with a DailyData object.      *)
(* Python objects carry their class, since the operations of Update        *)
(* depend on the attributes the class of an operand defines.               *)
(***************************************************************************)

AttributeError == "AttributeError"

\* the attributes Update looks up on a PriceData and on a list
AttributesOf(class) ==
    CASE class = "PriceData" -> {"_data", "_hasData", "low", "high", "average"}
      [] class = "list"      -> {"index", "copy", "append"}
      [] class = "PriceSeries" ->
            {"_data", "_hasData", "low", "high", "average", "index"}

HasAttribute(obj, name) == name \in AttributesOf(obj.class)

PyList(items) == [class |-> "list", items |-> items]

\* a PriceData object: _data and the statistics of __init__
PriceDataObject(prices) ==
    [class |-> "PriceData", data |-> prices, stats |-> PriceData(prices)]

\* PriceData.__add__( self, obj ): reads obj._data
PriceDataPlus(self, obj) ==
    IF HasAttribute(obj, "_data")
    THEN [err |-> NoError, value |-> PriceDataObject(self.data \o obj.data)]
    ELSE [err |-> AttributeError]

\* DailyData.__init__
DailyData(yesterday, today, tomorrow) ==
    [ yesterday |-> PriceDataObject(yesterday),
      today     |-> PriceDataObject(today),
      tomorrow  |-> PriceDataObject(tomorrow),
      all       |-> PriceDataObject(yesterday \o today \o tomorrow) ]

\* Graph.__init__: the number of past hours brought into 0 .. width - 2
ClampPastHours(pastHours, width) ==
    IF pastHours < 0 THEN 0
    ELSE IF pastHours > width - 2 THEN width - 2
    ELSE pastHours

\* a price series as graphics.py uses one: the statistics of a PriceData,
\* the index look-up of a list, slices and sums that are price series
PriceSeries(prices) ==
    [class |-> "PriceSeries", data |-> prices, stats |-> PriceData(prices)]

\* the elements of a list, a PriceData or a price series
ItemsOf(obj) == IF obj.class = "list" THEN obj.items ELSE obj.data

\* obj[ start : end ]: an object of the class of obj
SliceOf(obj, start, end) ==
    LET sliced == Slice(ItemsOf(obj), Known(start), Known(end))
    IN  CASE obj.class = "list"        -> PyList(sliced)
          [] obj.class = "PriceData"   -> PriceDataObject(sliced)
          [] obj.class = "PriceSeries" -> PriceSeries(sliced)

\* a + b: list.__add__ for a list on the left, the sum of a price series
\* with a list or a series, PriceData.__add__ for a PriceData
Plus(a, b) ==
    IF a.class = "list"
    THEN IF b.class = "list"
         THEN [err |-> NoError, value |-> PyList(a.items \o b.items)]
         ELSE [err |-> TypeError]
    ELSE IF a.class = "PriceSeries"
    THEN [err |-> NoError, value |-> PriceSeries(a.data \o ItemsOf(b))]
    ELSE PriceDataPlus(a, b)

\* start of Graph._GetVisiblePrices
VisibleStart(self, priceData, now) ==
    LET hours    == Len(ItemsOf(priceData.today))
        curIndex == CurrentHourIndex(hours, now[1], now[2], self.normalTimezone)
    IN  Len(ItemsOf(priceData.yesterday)) + curIndex - self.pastHours

\* prices[ start : end ] of Graph._GetVisiblePrices
VisibleSlice(self, priceData, now) ==
    LET start == VisibleStart(self, priceData, now)
        end   == start + self.width - 1
    IN  SliceOf(priceData.all, start, end)

\* Graph._GetVisiblePrices: the slice of priceData.all, padded with None
GetVisiblePrices(self, priceData, now) ==
    LET visible == VisibleSlice(self, priceData, now)
        padding == self.width - 1 - Len(ItemsOf(visible))
    IN  Plus(visible, PyList([i \in 1..padding |-> Missing]))

\* Graph.Update: the exception it ends with.  The visible prices come first,
\* the extreme markers look up priceData.today.index; sparklines, carets and
\* drawing follow.
GraphUpdate(self, priceData, now) ==
    LET visible == GetVisiblePrices(self, priceData, now)
    IN  IF visible.err # NoError
        THEN [err |-> visible.err, written |-> << >>]
        ELSE IF self.extremesVisible /\ ~ HasAttribute(priceData.today, "index")
        THEN [err |-> AttributeError, written |-> << >>]
        ELSE [err |-> NoError, written |-> << >>]

\* _DetailWindow._AddDetail: the price, or the missing glyph in its place
AddDetail(name, price) ==
    IF price # Missing
    THEN [name |-> name, glyph |-> None, price |-> price]
    ELSE [name |-> name, glyph |-> MissingSymbol, price |-> Missing]

\* DetailsToday._AddPrices / DetailsTomorrow._AddPrices
AddPrices(day) ==
    << AddDetail("highest:", day.stats.high),
       AddDetail("average:", day.stats.average),
       AddDetail("lowest:", day.stats.low) >>

\* panel.Update( prices )
Update(self, prices, now) ==
    CASE self.class = "Graph" -> GraphUpdate(self, prices, now)
      [] self.class = "DetailsToday" ->
            [err |-> NoError, written |-> AddPrices(prices.today)]
      [] self.class = "DetailsTomorrow" ->
            [err |-> NoError, written |-> AddPrices(prices.tomorrow)]

\* The series handed to the panels: 23 to 25 entries, all of them null, or
\* null but for one price at either end, or all of them one price
SamplePrices == {-2, 3}

DaySeries ==
    UNION { {[i \in 1..n |-> Missing]}
            \cup { [i \in 1..n |-> IF i = p THEN Known(v) ELSE Missing] :
                     p \in {1, n}, v \in SamplePrices }
            \cup { [i \in 1..n |-> Known(v)] : v \in SamplePrices }
          : n \in DayLengths }

\* now.hour and utcnow().hour at the time of the Update
Clocks == { <<0, 22>>, <<14, 11>>, <<23, 21>> }

\* options['pastHours'] of a graph that shows more than a day of past hours
LongPastHours == 30

\* the constructed panels: a Graph of the default size with and without
\* extreme markers, one that shows 30 past hours, and the two windows of
\* daily statistics
Panels ==
    { [class |-> "Graph", width |-> GraphMinSize[2],
       pastHours |-> GraphDefaultPastHours, normalTimezone |-> 2,
       extremesVisible |-> e] : e \in BOOLEAN }
    \cup { [class |-> "Graph", width |-> GraphMinSize[2],
            pastHours |-> ClampPastHours(LongPastHours, GraphMinSize[2]),
            normalTimezone |-> 2, extremesVisible |-> FALSE] }
    \cup { [class |-> c] : c \in {"DetailsToday", "DetailsTomorrow"} }

InitRender ==
    /\ panel \in Panels
    /\ daily \in DaySeries \X DaySeries \X DaySeries
    /\ clock \in Clocks
    /\ outcome = [err |-> None]
    /\ IdleLater
    /\ IdleGraphics /\ IdleGeometry /\ IdleStats /\ IdleCollection
    /\ IdleOptions /\ IdleApp

\* panel.Update( DailyData( yesterday, today, tomorrow ) )
PanelUpdate ==
    /\ outcome.err = None
    /\ outcome' = Update(panel, DailyData(daily[1], daily[2], daily[3]), clock)
    /\ UNCHANGED <<panel, daily, clock>>
    /\ UNCHANGED <<graphicsVars, laterVars,
                   geometryVars, statsVars, collectionVars,
                   optionVars, appVars>>

NextRender == PanelUpdate

SpecRender == InitRender /\ [][NextRender]_vars

(***************************************************************************)
(* Properties of rendering                                                 *)
(***************************************************************************)

AllNull(series) == \A i \in 1..Len(series) : series[i] = Missing

\* C18 as stated: for every constructed panel and every DailyData whose
\* three series have 23 to 25 nullable entries, all-null series included,
\* Update completes without raising; with tomorrow all null, DetailsTomorrow
\* writes the missing glyph for highest, average and lowest.
C18_UpdateNeverFails ==
    outcome.err # None =>
        /\ outcome.err = NoError
        /\ (panel.class = "DetailsTomorrow" /\ AllNull(daily[3])) =>
              \A k \in 1..3 : outcome.written[k].glyph = MissingSymbol

\* The part that holds: the windows of daily statistics never raise, and a
\* day without prices is written with the missing glyph three times.
C18_DailyDetailsNeverFail ==
    (outcome.err # None /\ panel.class # "Graph") =>
        /\ outcome.err = NoError
        /\ (panel.class = "DetailsTomorrow" /\ AllNull(daily[3])) =>
              \A k \in 1..3 : outcome.written[k].glyph = MissingSymbol
        /\ (panel.class = "DetailsToday" /\ AllNull(daily[2])) =>
              \A k \in 1..3 : outcome.written[k].glyph = MissingSymbol

\* the panel updated and the prices it was given
GraphUpdated == outcome.err # None /\ panel.class = "Graph"
GivenPrices  == DailyData(daily[1], daily[2], daily[3])

\* the position of yesterday + today + tomorrow that column c, from 0, of
\* the graph stands for, the current hour standing in column pastHours
PositionOf(c) ==
    Len(daily[1])
      + CurrentHourIndex(Len(daily[2]), clock[1], clock[2], panel.normalTimezone)
      - panel.pastHours + c

\* the price at a position of the concatenation, None outside of it
PriceAt(place) ==
    LET all == daily[1] \o daily[2] \o daily[3]
    IN  IF 0 <= place /\ place < Len(all) THEN all[place + 1] ELSE Missing

\* a list of width - 1 entries aligned as C27 has it
Aligned(window) ==
    /\ Len(window) = panel.width - 1
    /\ \A c \in 0..(panel.width - 2) : window[c + 1] = PriceAt(PositionOf(c))
    /\ LET hour == CurrentHourIndex(Len(daily[2]), clock[1], clock[2],
                                    panel.normalTimezone)
       IN  (0 <= hour /\ hour < Len(daily[2])) =>
              window[panel.pastHours + 1] = daily[2][hour + 1]

\* C27: for every yesterday and today of 23 to 25 entries and every
\* current hour _GetVisiblePrices returns width - 1 entries, the entry of
\* column c being the price at position len(yesterday) + currentHourIndex
\* - pastHours + c of yesterday + today + tomorrow, or None when there is no
\* such position; column pastHours holds today's price of the current hour.
C27_VisibleWindow ==
    GraphUpdated =>
        LET visible == GetVisiblePrices(panel, GivenPrices, clock)
        IN  /\ visible.err = NoError
            /\ Aligned(visible.value.data)

\* The slice taken before the padding fails, filled up with None as the
\* code means to
SliceFilledUp ==
    LET taken == VisibleSlice(panel, GivenPrices, clock).data
    IN  taken \o [i \in 1..(panel.width - 1 - Len(taken)) |-> Missing]

\* The part that holds: when no more past hours are shown than yesterday
\* and the hours of today that have passed provide, the slice filled up
\* with None is the window of C27.
C27_SliceAligned ==
    (GraphUpdated /\ PositionOf(0) >= 0) => Aligned(SliceFilledUp)

\* 30 past hours at 00 o'clock, yesterday and today holding prices: the
\* slice starts at a negative place, which Python counts from the end of
\* the list, and is empty
C27_NegativeStart ==
    /\ GraphUpdated /\ panel.pastHours = LongPastHours /\ clock[1] = 0
    /\ Len(daily[1]) = 24 /\ PositionOf(0) = -6
    /\ daily[1][24] = Known(3) /\ daily[2][1] = Known(3)
    /\ VisibleSlice(panel, GivenPrices, clock).data = << >>
    /\ ~ Aligned(SliceFilledUp)

(***************************************************************************)
(* SpecApp: _InitApp, _StartApp and the run loop of application.py.        *)
(* The display and the data handler are the collaborators the application  *)
(* constructs and calls (it names them Display and PriceData); each call   *)
(* to them ends in any of the outcomes their interface allows: it returns, *)
(* or it raises one of their exceptions.                                   *)
(***************************************************************************)

\* the exit codes of application.py
NoErrors             == 0
UnexpectedErrorCode  == 1
ConfigErrorCode      == 2
DisplayErrorCode     == 3
DataErrorCode        == 4

KeyboardInterrupt == "KeyboardInterrupt"
UnexpectedError   == "Exception"
ConfigError       == "ConfigParsingError"
DataErrors        == {"DataParsingError", "NoDataError", "DataRequestError"}

\* the most data updates one run of the model makes
MaxFetches == 6

\* the except clauses of _StartApp: the argument of sys.exit
StartAppExitCode(err) ==
    CASE err = KeyboardInterrupt -> NoErrors
      [] err \in DataErrors      -> DataErrorCode
      [] OTHER                   -> UnexpectedErrorCode

\* PriceDataHandler.__init__: no prices yet, every hour is None
NoPrices == [version |-> 0, tomorrow |-> FALSE]

\* App.__init__: the exception it ends with, and whether curses.initscr()
\* had been called by then.  The options are checked before initscr; the
\* display and the data handler are constructed after it.
AppInitOutcomes ==
    { [err |-> NoError, acquired |-> TRUE],
      [err |-> MissingOptionError, acquired |-> FALSE],
      [err |-> WindowSizeError, acquired |-> TRUE],
      [err |-> UnexpectedError, acquired |-> FALSE],
      [err |-> UnexpectedError, acquired |-> TRUE] }

\* PriceDataHandler.Update: new prices (with or without those of tomorrow)
\* replace the stored ones, or _RetrieveData / _ParseData raises and the
\* stored prices stay as they are
DataUpdateOutcomes(prices) ==
    { [err |-> NoError, prices |-> [version |-> prices.version + 1, tomorrow |-> t]] :
        t \in BOOLEAN }
    \cup { [err |-> e, prices |-> prices] : e \in DataErrors }

\* display.Update( prices ): the prices are on the screen, or it raises
DisplayUpdateOutcomes(prices, shown) ==
    { [err |-> NoError, screen |-> <<prices>>],
      [err |-> UnexpectedError, screen |-> shown] }

InitApp ==
    /\ appPc = "init" /\ cursesActive = FALSE /\ running = FALSE
    /\ exitCode = Missing /\ stored = NoPrices /\ screen = << >>
    /\ lastEvent = [step |-> None]
    /\ IdleLater
    /\ IdleGraphics /\ IdleGeometry /\ IdleStats /\ IdleCollection
    /\ IdleOptions /\ IdleRender

\* what a step of the application did, with the prices and the screen
\* before it
Event(step, err) ==
    [step |-> step, err |-> err, stored |-> stored, screen |-> screen]

\* sys.exit( code ) without app.Stop()
ExitWith(code) ==
    /\ exitCode' = Known(code)
    /\ appPc' = "exited"

\* app.Stop(); sys.exit( code ): _running is cleared and _EndCurses calls
\* curses.endwin()
StopAndExit(code) ==
    /\ running' = FALSE
    /\ cursesActive' = FALSE
    /\ exitCode' = Known(code)
    /\ appPc' = "exited"

\* _InitApp( settings )
AppInitApp ==
    /\ appPc = "init"
    /\ \E out \in AppInitOutcomes :
          /\ cursesActive' = out.acquired
          /\ CASE out.err = NoError ->
                    appPc' = "constructed" /\ UNCHANGED exitCode
               [] out.err = WindowSizeError -> ExitWith(DisplayErrorCode)
               [] out.err = MissingOptionError ->
                    appPc' = "reset" /\ UNCHANGED exitCode
               [] OTHER -> ExitWith(UnexpectedErrorCode)
          /\ lastEvent' = Event("initApp", out.err)
    /\ UNCHANGED <<running, stored, screen>>
    /\ UNCHANGED <<graphicsVars, laterVars,
                   geometryVars, statsVars, collectionVars,
                   optionVars, renderVars>>

\* _ResetSettings( settings ): settings.Reset(), then App( ... ) once more
AppResetSettings ==
    /\ appPc = "reset"
    /\ \/ /\ ExitWith(ConfigErrorCode)
          /\ lastEvent' = Event("resetSettings", ConfigError)
          /\ UNCHANGED cursesActive
       \/ \E out \in AppInitOutcomes :
             /\ cursesActive' = out.acquired
             /\ CASE out.err = NoError ->
                       appPc' = "constructed" /\ UNCHANGED exitCode
                  [] out.err = MissingOptionError -> ExitWith(ConfigErrorCode)
                  [] OTHER -> ExitWith(UnexpectedErrorCode)
             /\ lastEvent' = Event("resetSettings", out.err)
    /\ UNCHANGED <<running, stored, screen>>
    /\ UNCHANGED <<graphicsVars, laterVars,
                   geometryVars, statsVars, collectionVars,
                   optionVars, renderVars>>

\* _StartApp( app ) up to the run loop: Start sets _running, initialises
\* curses and the display (_InitializeDisplay: data update, then render)
AppStart ==
    /\ appPc = "constructed"
    /\ \E fetched \in DataUpdateOutcomes(stored) :
          IF fetched.err # NoError
          THEN /\ StopAndExit(StartAppExitCode(fetched.err))
               /\ lastEvent' = Event("initialFetchFailed", fetched.err)
               /\ UNCHANGED <<stored, screen>>
          ELSE \E drawn \in DisplayUpdateOutcomes(fetched.prices, screen) :
                  /\ stored' = fetched.prices
                  /\ screen' = drawn.screen
                  /\ lastEvent' = Event("start", drawn.err)
                  /\ IF drawn.err # NoError
                     THEN StopAndExit(StartAppExitCode(drawn.err))
                     ELSE /\ running' = TRUE /\ appPc' = "mainloop"
                          /\ UNCHANGED <<cursesActive, exitCode>>
    /\ UNCHANGED <<graphicsVars, laterVars,
                   geometryVars, statsVars, collectionVars,
                   optionVars, renderVars>>

\* _Mainloop at midnight: _MidnightUpdate calls _AvailableFromTime without
\* self, a NameError, which _StartApp handles as an unexpected error
AppMidnightUpdate ==
    /\ appPc = "mainloop" /\ running
    /\ StopAndExit(StartAppExitCode(UnexpectedError))
    /\ lastEvent' = Event("midnight", UnexpectedError)
    /\ UNCHANGED <<stored, screen>>
    /\ UNCHANGED <<graphicsVars, laterVars,
                   geometryVars, statsVars, collectionVars,
                   optionVars, renderVars>>

\* _Mainloop when new data is due: _DailyDataUpdate fetches while tomorrow's
\* prices are incomplete and renders once they are complete
AppDailyDataUpdate ==
    /\ appPc = "mainloop" /\ running
    /\ ~ stored.tomorrow
    /\ stored.version < MaxFetches
    /\ \E fetched \in DataUpdateOutcomes(stored) :
          IF fetched.err # NoError
          THEN /\ StopAndExit(StartAppExitCode(fetched.err))
               /\ lastEvent' = Event("fetchFailed", fetched.err)
               /\ UNCHANGED <<stored, screen>>
          ELSE /\ stored' = fetched.prices
               /\ IF fetched.prices.tomorrow
                  THEN \E drawn \in DisplayUpdateOutcomes(fetched.prices, screen) :
                          /\ screen' = drawn.screen
                          /\ lastEvent' = Event("fetched", drawn.err)
                          /\ IF drawn.err # NoError
                             THEN StopAndExit(StartAppExitCode(drawn.err))
                             ELSE UNCHANGED <<appPc, running, cursesActive, exitCode>>
                  ELSE /\ lastEvent' = Event("fetched", NoError)
                       /\ UNCHANGED <<screen, appPc, running, cursesActive, exitCode>>
    /\ UNCHANGED <<graphicsVars, laterVars,
                   geometryVars, statsVars, collectionVars,
                   optionVars, renderVars>>

\* _Mainloop when the hour has changed: _HourlyUpdate renders the stored prices
AppHourlyUpdate ==
    /\ appPc = "mainloop" /\ running
    /\ \E drawn \in DisplayUpdateOutcomes(stored, screen) :
          /\ screen' = drawn.screen
          /\ IF drawn.err # NoError
             THEN StopAndExit(StartAppExitCode(drawn.err))
             ELSE UNCHANGED <<appPc, running, cursesActive, exitCode>>
          /\ lastEvent' = Event("hourly", drawn.err)
    /\ UNCHANGED stored
    /\ UNCHANGED <<graphicsVars, laterVars,
                   geometryVars, statsVars, collectionVars,
                   optionVars, renderVars>>

\* Ctrl-C while the run loop sleeps: _StartApp stops the app and exits
AppKeyboardInterrupt ==
    /\ appPc = "mainloop" /\ running
    /\ StopAndExit(StartAppExitCode(KeyboardInterrupt))
    /\ lastEvent' = Event("interrupt", KeyboardInterrupt)
    /\ UNCHANGED <<stored, screen>>
    /\ UNCHANGED <<graphicsVars, laterVars,
                   geometryVars, statsVars, collectionVars,
                   optionVars, renderVars>>

NextApp ==
    \/ AppInitApp \/ AppResetSettings \/ AppStart
    \/ AppMidnightUpdate \/ AppDailyDataUpdate \/ AppHourlyUpdate
    \/ AppKeyboardInterrupt

SpecApp == InitApp /\ [][NextApp]_vars

(***************************************************************************)
(* Properties of the application                                           *)
(***************************************************************************)

\* C19 as stated: whenever the process exits after curses.initscr() has
\* been called - sizing error at startup, missing option, unexpected error
\* while the App is constructed, data error, unexpected error or keyboard
\* interrupt while running - curses.endwin() has been called before the exit.
C19_TerminalReleased == appPc = "exited" => ~ cursesActive

\* What holds instead: the terminal is released on every exit of _StartApp;
\* an exit of _InitApp or _ResetSettings leaves it as App.__init__ left it.
C19_ReleasedOnceStarted ==
    (appPc = "exited" /\ cursesActive) =>
        /\ lastEvent.step \in {"initApp", "resetSettings"}
        /\ lastEvent.err \in {WindowSizeError, UnexpectedError}

\* C20 as stated: when retrieval or parsing fails during a periodic data
\* update of the run loop, the stored prices are unchanged, the screen
\* keeps what was rendered before, and the run loop keeps running to later
\* refresh cycles.
C20_FetchFailureKeepsRunning ==
    lastEvent.step = "fetchFailed" =>
        /\ stored = lastEvent.stored
        /\ screen = lastEvent.screen
        /\ running /\ appPc = "mainloop"

\* What holds instead: the stored prices are unchanged and nothing new is
\* rendered, but the failure ends the run: the app is stopped and the
\* process exits with the data error code.
C20_FetchFailureEndsRun ==
    lastEvent.step = "fetchFailed" =>
        /\ stored = lastEvent.stored
        /\ screen = lastEvent.screen
        /\ ~ running /\ ~ cursesActive
        /\ appPc = "exited" /\ exitCode = Known(DataErrorCode)

(***************************************************************************)
(* SpecHandler: the prices PriceDataHandler keeps and hands out.  A price  *)
(* list is an object in memory: listStore holds the lists, and a DailyData *)
(* is the three places of its _data, so that two DailyData objects may     *)
(* share a list or not.                                                    *)
(***************************************************************************)

MaxUpdates   == 1
MaxCopies    == 2
MaxRollovers == 2

\* 24*[None]
EmptyDay == [i \in 1..24 |-> Missing]

\* the lists a DailyData refers to, by value
ListsOf(data, store) == << store[data[1]], store[data[2]], store[data[3]] >>

\* DailyData.Copy: three new lists, list.copy() of the three held
DailyDataCopy(data, store) ==
    [ store |-> store \o ListsOf(data, store),
      data  |-> << Len(store) + 1, Len(store) + 2, Len(store) + 3 >> ]

\* a rollover that leaves tomorrow's prices in place
MidnightUpdateKeepTomorrow(data, store) ==
    [ store |-> store, data |-> << data[2], data[3], data[3] >> ]

\* PriceDataHandler.MidnightUpdate: trash, yesterday, today = self._prices
\* takes the lists themselves, 24*[None] is a new list
MidnightUpdate(data, store) ==
    [ store |-> Append(store, EmptyDay),
      data  |-> << data[2], data[3], Len(store) + 1 >> ]

\* what _ConvertToPriceList makes of one day of the source: 24*[None]
\* when the day has no data, else hoursInDay entries
ParsedDays ==
    { EmptyDay }
    \cup { [i \in 1..n |-> Known(3)] : n \in {24, 25} }
    \cup { [i \in 1..23 |-> IF i = 1 THEN Known(-2) ELSE Missing] }

\* PriceDataHandler.__init__
InitHandler ==
    /\ listStore = << EmptyDay, EmptyDay, EmptyDay >>
    /\ handlerPrices = << 1, 2, 3 >>
    /\ handed = << >>
    /\ rolled = [op |-> None, updates |-> 0, rollovers |-> 0, before |-> << >>]
    /\ IdleGraphics /\ IdlePanels /\ IdleWalk /\ IdlePipeline

\* PriceDataHandler.Update, the source answering: _ParseData builds three
\* new lists and a new DailyData
HandlerUpdate ==
    /\ rolled.updates < MaxUpdates
    /\ \E yesterday \in ParsedDays, today \in ParsedDays, tomorrow \in ParsedDays :
          /\ listStore' = listStore \o << yesterday, today, tomorrow >>
          /\ handlerPrices' = << Len(listStore) + 1, Len(listStore) + 2,
                                 Len(listStore) + 3 >>
    /\ rolled' = [rolled EXCEPT !.op = None, !.updates = @ + 1,
                                !.before = << >>]
    /\ UNCHANGED handed
    /\ UNCHANGED <<graphicsVars, panelVars, walkVars, pipelineVars>>

\* PriceDataHandler.GetPrices
HandlerGetPrices ==
    /\ Len(handed) < MaxCopies
    /\ LET copy == DailyDataCopy(handlerPrices, listStore)
       IN  /\ listStore' = copy.store
           /\ handed' = Append(handed, [ data |-> copy.data,
                                         seen |-> ListsOf(handlerPrices, listStore) ])
    /\ UNCHANGED <<handlerPrices, rolled>>
    /\ UNCHANGED <<graphicsVars, panelVars, walkVars, pipelineVars>>

\* PriceDataHandler.MidnightUpdate
HandlerMidnightUpdate ==
    /\ rolled.rollovers < MaxRollovers
    /\ LET new == MidnightUpdate(handlerPrices, listStore)
       IN  /\ listStore' = new.store
           /\ handlerPrices' = new.data
    /\ rolled' = [rolled EXCEPT !.op = "MidnightUpdate", !.rollovers = @ + 1,
                                !.before = ListsOf(handlerPrices, listStore)]
    /\ UNCHANGED handed
    /\ UNCHANGED <<graphicsVars, panelVars, walkVars, pipelineVars>>

NextHandler == HandlerUpdate \/ HandlerGetPrices \/ HandlerMidnightUpdate

SpecHandler == InitHandler /\ [][NextHandler]_vars

\* the prices the handler holds now
StoredPrices == ListsOf(handlerPrices, listStore)

\* C21: after MidnightUpdate yesterday is the previous today and today the
\* previous tomorrow, entry for entry and with their own lengths, tomorrow
\* is 24 entries of None; and every copy GetPrices has returned still
\* holds the prices it held when it was returned.
C21_MidnightRollover ==
    /\ rolled.op = "MidnightUpdate" =>
          /\ StoredPrices[1] = rolled.before[2]
          /\ StoredPrices[2] = rolled.before[3]
          /\ Len(StoredPrices[3]) = 24
          /\ \A i \in 1..24 : StoredPrices[3][i] = Missing
    /\ \A k \in 1..Len(handed) :
          /\ ListsOf(handed[k].data, listStore) = handed[k].seen
          /\ \A j \in 1..3 : handed[k].data[j] \notin
                               { handlerPrices[1], handlerPrices[2], handlerPrices[3] }

\* a rollover of a 25-hour today and a 23-hour tomorrow with prices, after
\* GetPrices had returned a copy of them
C21_Witness ==
    /\ rolled.op = "MidnightUpdate"
    /\ Len(rolled.before[2]) = 25 /\ rolled.before[2][1] = Known(3)
    /\ Len(rolled.before[3]) = 23 /\ rolled.before[3][1] = Known(-2)
    /\ \E k \in 1..Len(handed) : handed[k].seen = rolled.before

(***************************************************************************)
(* SpecDayWalk: the hour index read once an hour through a day on which    *)
(* the clocks are changed                                                  *)
(***************************************************************************)

\* The wall clock `t` whole hours after local midnight on a day whose hour
\* `shift` is repeated (25 hours) or skipped (23 hours): the hour it shows
\* and the hours of daylight saving time in force.  The repeated hour is
\* shown first in daylight saving time and then in normal time; the hours
\* after the skipped one are in daylight saving time.
WallClock(hours, shift, t) ==
    IF hours = 25
    THEN IF t <= shift THEN [hour |-> t, dst |-> 1] ELSE [hour |-> t - 1, dst |-> 0]
    ELSE IF t < shift THEN [hour |-> t, dst |-> 0] ELSE [hour |-> t + 1, dst |-> 1]

\* datetime.utcnow().hour when the local clock shows `hour` at `offset`
\* hours from UTC
UtcHour(hour, offset) == (hour - offset) % 24

InitDayWalk ==
    /\ hoursInDay \in {23, 25}
    /\ normalTimezone \in (-MaxTimezone)..MaxTimezone
    /\ shiftHour \in HoursOfClock
    /\ elapsed = 0
    /\ nowHour = WallClock(hoursInDay, shiftHour, 0).hour
    /\ utcHour = UtcHour( nowHour,
                          normalTimezone + WallClock(hoursInDay, shiftHour, 0).dst )
    /\ index = Missing
    /\ readings = << >>
    /\ IdleLayout /\ IdleScaler /\ IdleMarker /\ IdlePanels /\ IdleHandler
    /\ IdlePipeline

\* DetailsCurrent._AddHour: index = self._CurrentHourIndex( hours ), read
\* once in the hour
HourlyRead ==
    /\ index = Missing
    /\ index' = Known(CurrentHourIndex(hoursInDay, nowHour, utcHour, normalTimezone))
    /\ readings' = Append(readings, ValueOf(index'))
    /\ UNCHANGED <<nowHour, utcHour, hoursInDay, normalTimezone, elapsed, shiftHour>>
    /\ UNCHANGED <<layoutVars, scalerVars, markerVars, panelVars, handlerVars,
                   pipelineVars>>

\* an hour passes: datetime.now() and datetime.utcnow() move on
ClockAdvance ==
    /\ index # Missing
    /\ elapsed < hoursInDay - 1
    /\ elapsed' = elapsed + 1
    /\ nowHour' = WallClock(hoursInDay, shiftHour, elapsed').hour
    /\ utcHour' = UtcHour( nowHour',
                           normalTimezone + WallClock(hoursInDay, shiftHour, elapsed').dst )
    /\ index' = Missing
    /\ UNCHANGED <<hoursInDay, normalTimezone, shiftHour, readings>>
    /\ UNCHANGED <<layoutVars, scalerVars, markerVars, panelVars, handlerVars,
                   pipelineVars>>

NextDayWalk == HourlyRead \/ ClockAdvance

SpecDayWalk == InitDayWalk /\ [][NextDayWalk]_vars

\* C28: through a day of 25 or 23 hours the values of _CurrentHourIndex
\* read hour by hour are 0, 1, 2, ... in this order, one for each hour of
\* the day, and all of them inside [0, hoursInDay).
C28_WholeDayIndices ==
    /\ Len(readings) <= hoursInDay
    /\ \A k \in 1..Len(readings) : readings[k] = k - 1

\* The part that holds: C28 for a normal offset of zero or more hours east
\* of Greenwich.
C28_EastOfGreenwich ==
    normalTimezone >= 0 => C28_WholeDayIndices

\* a whole day of 25 hours walked in such a zone, the hour 3 repeated
C28_WalkedEast ==
    /\ hoursInDay = 25 /\ shiftHour = 3 /\ normalTimezone = 2
    /\ Len(readings) = 25 /\ readings[5] = 4 /\ nowHour = 23

\* a reading in a zone west of Greenwich: three hours behind UTC in normal
\* time, at 00 o'clock of the 25-hour day, UTC showing 02
C28_ReadWest ==
    /\ hoursInDay = 25 /\ normalTimezone = -3 /\ elapsed = 0
    /\ nowHour = 0 /\ utcHour = 2
    /\ readings = << -24 >>

(***************************************************************************)
(* SpecPipeline: Graph.Update step by step.  The daily prices it is given  *)
(* are a DailyData of datahandler.py, an object whose series are plain     *)
(* lists, or one whose series are price series with the statistics, the    *)
(* index look-up and the concatenation that graphics.py relies on.  The    *)
(* sparklines come from a library: any bar chart of the right shape may    *)
(* come back.                                                              *)
(***************************************************************************)

MaxColumns == 3
MaxBarRows == 3

IndexError == "IndexError"

\* daily prices whose yesterday, today, tomorrow and all are lists
ListDailyData(yesterday, today, tomorrow) ==
    [ yesterday |-> PyList(yesterday),
      today     |-> PyList(today),
      tomorrow  |-> PyList(tomorrow),
      all       |-> PyList(yesterday \o today \o tomorrow) ]

\* daily prices whose yesterday, today, tomorrow and all are price series
SeriesDailyData(yesterday, today, tomorrow) ==
    [ yesterday |-> PriceSeries(yesterday),
      today     |-> PriceSeries(today),
      tomorrow  |-> PriceSeries(tomorrow),
      all       |-> PriceSeries(yesterday \o today \o tomorrow) ]

\* the daily prices of a form, made of three days of prices
DailyPrices(form, days) ==
    CASE form = "PriceData"   -> DailyData(days[1], days[2], days[3])
      [] form = "list"        -> ListDailyData(days[1], days[2], days[3])
      [] form = "PriceSeries" -> SeriesDailyData(days[1], days[2], days[3])

\* Graph._SplitPrices: the positive and the negative prices, None elsewhere
SplitPrices(prices) ==
    << [h \in DOMAIN prices |->
          IF prices[h] # Missing /\ ValueOf(prices[h]) > 0
          THEN prices[h] ELSE Missing],
       [h \in DOMAIN prices |->
          IF prices[h] # Missing /\ ValueOf(prices[h]) < 0
          THEN prices[h] ELSE Missing] >>

\* one column of a bar chart, top row first: blank cells, then a cell that
\* may be partly filled, then full blocks
BarColumn(numRows, filled, top) ==
    [r \in 1..numRows |->
        IF r <= numRows - filled THEN Blank
        ELSE IF r = numRows - filled + 1 THEN top
        ELSE FullBlock]

\* sparklines.sparklines( prices, num_lines=numRows, ... ): the charts it
\* may return, a blank column for None and a bar of some height elsewhere
Sparklines(prices, numRows) ==
    IF numRows = 0 THEN { << >> }
    ELSE { [r \in 1..numRows |->
              [h \in DOMAIN prices |->
                  BarColumn(numRows, filled[h], top[h])[r]]] :
             filled \in { f \in [DOMAIN prices -> 0..numRows] :
                            \A h \in DOMAIN prices :
                                prices[h] = Missing => f[h] = 0 },
             top \in [DOMAIN prices -> {HalfBlock, FullBlock}] }

\* Graph._GetSparklines
GetSparklines(self, prices) ==
    LET split  == SplitPrices(prices)
        found  == GetLineParameters(GetLimits(prices), self.height)
    IN  IF found.err # NoError THEN { [err |-> found.err] }
        ELSE { [err |-> NoError, value |-> <<pos, neg>>] :
                 pos \in Sparklines(split[1], found.pos.numLines),
                 neg \in Sparklines(split[2], found.neg.numLines) }

\* Graph._AddPadding: a blank row above the positive rows and one below the
\* negative rows, as wide as the first row there is
AddPadding(grids) ==
    IF grids[1] \o grids[2] = << >> THEN [err |-> IndexError]
    ELSE LET hours   == Len((grids[1] \o grids[2])[1])
             padding == [h \in 1..hours |-> Blank]
         IN  [err |-> NoError,
              value |-> << <<padding>> \o grids[1], grids[2] \o <<padding>> >>]

\* lines 389-398 and 411-420 of the extreme markers: the column of the
\* hour, nothing for the current hour, above for a price over zero
PlaceExtreme(self, grids, price, hour, curHour, symbol) ==
    LET column == hour - curHour + self.pastHours
    IN  IF hour # curHour
        THEN IF price > 0
             THEN << AddSymbolAbove(grids[1], column, symbol), grids[2] >>
             ELSE << grids[1], AddSymbolBelow(grids[2], column, symbol) >>
        ELSE grids

\* list.index( value ), counted from 0
ListIndex(items, value) ==
    (CHOOSE k \in DOMAIN items :
        items[k] = value /\ \A j \in 1..(k - 1) : items[j] # value) - 1

\* Graph._AddHighestMarker and Graph._AddLowestMarker: which is "high" or
\* "low"; both look up the statistic and then index on priceData.today,
\* and compare the statistic with 0 unless its hour is the current one
AddExtremeMarker(self, grids, priceData, now, which) ==
    LET today == priceData.today
    IN  IF ~ HasAttribute(today, which) \/ ~ HasAttribute(today, "index")
        THEN [err |-> AttributeError]
        ELSE LET price   == IF which = "high" THEN today.stats.high
                            ELSE today.stats.low
                 hour    == ListIndex(ItemsOf(today), price)
                 curHour == CurrentHourIndex(Len(ItemsOf(today)), now[1],
                                             now[2], self.normalTimezone)
                 symbol  == IF which = "high" THEN Extremes[2]
                            ELSE Extremes[1]
             IN  IF price = Missing
                 THEN IF hour # curHour THEN [err |-> TypeError]
                      ELSE [err |-> NoError, value |-> grids]
                 ELSE [err |-> NoError,
                       value |-> PlaceExtreme(self, grids, ValueOf(price),
                                              hour, curHour, symbol)]

AddHighestMarker(self, grids, priceData, now) ==
    AddExtremeMarker(self, grids, priceData, now, "high")

AddLowestMarker(self, grids, priceData, now) ==
    AddExtremeMarker(self, grids, priceData, now, "low")

\* carets written into the boundary rows of the column of the current hour
AddCaretsOnBoundary(self, grids) ==
    << SetRow(grids[1], Len(grids[1]) - 1,
              Splice(grids[1][Len(grids[1])], self.pastHours, Carets[1])),
       SetRow(grids[2], 0, Splice(grids[2][1], self.pastHours, Carets[2])) >>

\* Graph._AddCarets: the upper caret above and the lower caret below the
\* column of the current hour
AddCarets(self, grids) ==
    << AddSymbolAbove(grids[1], self.pastHours, Carets[1]),
       AddSymbolBelow(grids[2], self.pastHours, Carets[2]) >>

\* the characters Update treats as markers when it draws
Symbols == { Carets[1], Carets[2], Extremes[1], Extremes[2], MissingSymbol }

\* Graph._AddLines: the rows written to the window, top to bottom, each
\* cell with the way it is drawn: plain, in its color, or color reversed
AddLines(grids, prices) ==
    LET pos == grids[1]
        neg == grids[2]
        Plain(line) ==
            [h \in DOMAIN line |-> [glyph |-> line[h], attr |-> "plain"]]
        Positive(line) ==
            [h \in DOMAIN line |->
                [glyph |-> line[h],
                 attr  |-> IF line[h] \notin Symbols THEN "color" ELSE "plain"]]
        Negative(line) ==
            [h \in DOMAIN line |->
                [glyph |-> line[h],
                 attr  |-> IF /\ line[h] \notin Symbols
                              /\ prices[h] # Missing
                              /\ ValueOf(prices[h]) < 0
                           THEN "reverse" ELSE "plain"]]
    IN  << Plain(pos[1]) >>
        \o [r \in 1..(Len(pos) - 1) |-> Positive(pos[r + 1])]
        \o [r \in 1..(Len(neg) - 1) |-> Negative(neg[r])]
        \o << Plain(neg[Len(neg)]) >>

\* the marker steps with the carets placed before the missing prices are
\* marked
UpdateOrderCaretsFirst(self) ==
    IF self.extremesVisible
    THEN << "_AddHighestMarker", "_AddLowestMarker",
            "_AddCarets", "_AddMissingSymbol" >>
    ELSE << "_AddCarets", "_AddMissingSymbol" >>

\* the marker steps of Update, lines 676-681, in the order of the code
UpdateOrder(self) ==
    IF self.extremesVisible
    THEN << "_AddHighestMarker", "_AddLowestMarker",
            "_AddMissingSymbol", "_AddCarets" >>
    ELSE << "_AddMissingSymbol", "_AddCarets" >>

\* the step Update takes next
NextStep ==
    IF update.step # "markers" THEN update.step
    ELSE IF Len(update.done) < Len(UpdateOrder(panel))
    THEN UpdateOrder(panel)[Len(update.done) + 1]
    ELSE "_AddLines"

PipelinePrices == { Missing, Known(0) } \cup { Known(v) : v \in SamplePrices }

\* a day whose prices from hour first on are those of window, None elsewhere
DayAround(window, first) ==
    [i \in 1..24 |->
        IF first <= i - 1 /\ i - 1 < first + Len(window)
        THEN window[i - first] ELSE Missing]

\* the hour of the day at which Update runs
PipelineClock == << 14, 11 >>

\* the forms of daily prices Update is given
DataForms == { "PriceData", "list", "PriceSeries" }

\* a constructed Graph, and the prices of the hours it shows
InitPipeline ==
    /\ \E form \in DataForms :
         update = [step |-> "start", form |-> form, err |-> NoError,
                   done |-> << >>, before |-> << >>, drawn |-> << >>]
    /\ \E columns \in 1..MaxColumns, barRows \in 1..MaxBarRows :
         \E past \in 0..(columns - 1), e \in BOOLEAN,
            window \in [1..columns -> PipelinePrices] :
            /\ panel = [class |-> "Graph", width |-> columns + 1,
                        height |-> barRows + 2, pastHours |-> past,
                        normalTimezone |-> 3, extremesVisible |-> e]
            /\ daily = << EmptyDay,
                          DayAround(window, PipelineClock[1] - past),
                          EmptyDay >>
    /\ clock = PipelineClock
    /\ outcome = [err |-> None]
    /\ visiblePrices = << >>
    /\ lines = << << >>, << >> >>
    /\ numLines = 0 /\ params = [err |-> None] /\ lastCall = [op |-> None]
    /\ IdleLayout /\ IdleDst
    /\ IdleGeometry /\ IdleStats /\ IdleCollection /\ IdleOptions /\ IdleApp
    /\ IdleHandler /\ IdleWalk

\* what no step of Update touches
PipelineRest ==
    << panel, daily, clock, outcome, numLines, params, lastCall,
       layoutVars, dstVars, geometryVars, statsVars, collectionVars,
       optionVars, appVars, handlerVars, walkVars >>

\* lines 672-674: the visible prices, their sparklines, the padding
UpdateBegin ==
    /\ NextStep = "start"
    /\ LET priceData == DailyPrices(update.form, daily)
           visible   == GetVisiblePrices(panel, priceData, clock)
       IN  IF visible.err # NoError
           THEN /\ update' = [update EXCEPT !.step = "raised",
                                            !.err = visible.err]
                /\ UNCHANGED <<visiblePrices, lines>>
           ELSE /\ visiblePrices' = ItemsOf(visible.value)
                /\ \E sparks \in GetSparklines(panel, ItemsOf(visible.value)) :
                     IF sparks.err # NoError
                     THEN /\ update' = [update EXCEPT !.step = "raised",
                                                      !.err = sparks.err]
                          /\ UNCHANGED lines
                     ELSE LET padded == AddPadding(sparks.value)
                          IN  IF padded.err # NoError
                              THEN /\ update' = [update EXCEPT
                                                   !.step = "raised",
                                                   !.err = padded.err]
                                   /\ UNCHANGED lines
                              ELSE /\ lines' = padded.value
                                   /\ update' = [update EXCEPT
                                                   !.step = "markers"]
    /\ UNCHANGED PipelineRest

\* one marker step of Update: its name, and the padded grids it leaves
MarkerStep(name, marked) ==
    /\ NextStep = name
    /\ IF marked.err # NoError
       THEN /\ update' = [update EXCEPT !.step = "raised", !.err = marked.err]
            /\ UNCHANGED lines
       ELSE /\ lines' = marked.value
            /\ update' = [update EXCEPT !.done = Append(@, name),
                                        !.before = lines]
    /\ UNCHANGED visiblePrices
    /\ UNCHANGED PipelineRest

\* lines = self._AddHighestMarker( lines, priceData )
UpdateAddHighestMarker ==
    MarkerStep("_AddHighestMarker",
               AddHighestMarker(panel, lines,
                                DailyPrices(update.form, daily), clock))

\* lines = self._AddLowestMarker( lines, priceData )
UpdateAddLowestMarker ==
    MarkerStep("_AddLowestMarker",
               AddLowestMarker(panel, lines,
                               DailyPrices(update.form, daily), clock))

\* lines = self._AddMissingSymbol( lines, visiblePrices )
UpdateAddMissingSymbol ==
    MarkerStep("_AddMissingSymbol",
               [err |-> NoError,
                value |-> AddMissingSymbol(lines, visiblePrices)])

\* lines = self._AddCarets( lines )
UpdateAddCarets ==
    MarkerStep("_AddCarets",
               [err |-> NoError, value |-> AddCarets(panel, lines)])

\* lines 682-687: the colors, then the window cleared, written and shown
UpdateAddLines ==
    /\ NextStep = "_AddLines"
    /\ update' = [update EXCEPT !.step = "drawn",
                                !.drawn = AddLines(lines, visiblePrices)]
    /\ UNCHANGED <<visiblePrices, lines>>
    /\ UNCHANGED PipelineRest

NextPipeline ==
    \/ UpdateBegin
    \/ UpdateAddHighestMarker
    \/ UpdateAddLowestMarker
    \/ UpdateAddMissingSymbol
    \/ UpdateAddCarets
    \/ UpdateAddLines

SpecPipeline == InitPipeline /\ [][NextPipeline]_vars

\* the steps of Update keep the state in shape
PipelineTypeOK ==
    /\ update.step \in {"start", "markers", "raised", "drawn"}
    /\ update.step = "markers" => Len(lines[1]) >= 1 /\ Len(lines[2]) >= 1

\* the first and the last place of a step among those Update has done
FirstPlace(name) ==
    IF \E i \in DOMAIN update.done : update.done[i] = name
    THEN CHOOSE i \in DOMAIN update.done :
            /\ update.done[i] = name
            /\ \A j \in 1..(i - 1) : update.done[j] # name
    ELSE 0

Done(name) == FirstPlace(name) > 0

\* Update has written the window
Drawn == update.step = "drawn"

\* the characters of column h of a grid, top row first
ColumnOf(grid, h) == [r \in DOMAIN grid |-> grid[r][h]]

\* a symbol stands somewhere in a column
Holds(column, symbol) == \E r \in DOMAIN column : column[r] = symbol

\* the row of the drawn window that is the boundary row: the last positive
\* row when the positive side has a bar row, else the first negative row
BoundaryRow ==
    IF Len(lines[1]) > 1 THEN Len(lines[1]) ELSE Len(lines[1]) + 1

\* the column of the current hour
CurrentColumn == panel.pastHours + 1

\* C26: in the window Update has drawn, every column whose visible price is
\* null shows the missing glyph in the boundary row (the last positive row
\* when the positive side has a bar row, else the first negative row): no
\* caret and no extreme marker of the same Update has replaced it, the
\* column of the current hour included
C26_MissingGlyphDrawn ==
    Drawn =>
        \A h \in DOMAIN visiblePrices :
            visiblePrices[h] = Missing =>
                update.drawn[BoundaryRow][h].glyph = MissingSymbol

\* drawn: the price of the current hour is null, its column shows the
\* glyph in the last positive row, the upper caret above it and the lower
\* caret below
C26_Witness ==
    /\ Drawn
    /\ visiblePrices[CurrentColumn] = Missing
    /\ Len(lines[1]) > 1
    /\ update.drawn[BoundaryRow][CurrentColumn].glyph = MissingSymbol
    /\ update.drawn[BoundaryRow - 1][CurrentColumn].glyph = Carets[1]
    /\ Holds(ColumnOf(lines[2], CurrentColumn), Carets[2])

\* the same with extreme markers: a marker of the day's lowest price stands
\* in another column
C26_WitnessExtremes ==
    /\ C26_Witness /\ panel.extremesVisible
    /\ \E h \in DOMAIN visiblePrices :
         h # CurrentColumn /\ Holds(ColumnOf(lines[1], h), Extremes[1])

\* drawn without positive rows: the glyph of the current hour in the first
\* negative row, the lower caret in the row below it
C26_WitnessNegative ==
    /\ Drawn
    /\ visiblePrices[CurrentColumn] = Missing
    /\ Len(lines[1]) = 1 /\ Len(lines[2]) = 2
    /\ update.drawn[2][CurrentColumn].glyph = MissingSymbol
    /\ update.drawn[3][CurrentColumn].glyph = Carets[2]

\* step a comes before step b among the steps Update has done
Precedes(a, b) == Done(a) /\ (Done(b) => FirstPlace(a) < FirstPlace(b))

\* a cell of the drawn window is written in a color
ColoredCell ==
    \E r \in DOMAIN update.drawn : \E h \in DOMAIN update.drawn[r] :
        update.drawn[r][h].attr # "plain"

\* C25 as stated: the missing prices are marked after the extreme markers
\* and after the carets of the current hour have been placed, and before
\* any colored character is written to the window
C25_MarkingAfterCarets ==
    /\ Done("_AddMissingSymbol") =>
          /\ Precedes("_AddCarets", "_AddMissingSymbol")
          /\ panel.extremesVisible =>
                /\ Precedes("_AddHighestMarker", "_AddMissingSymbol")
                /\ Precedes("_AddLowestMarker", "_AddMissingSymbol")
    /\ update.drawn # << >> => Done("_AddMissingSymbol")

\* C25 amended: the missing prices are marked after the extreme markers have
\* been placed and before the carets of the current hour are; the carets
\* are placed only once the missing prices are marked, and nothing is
\* written to the window before both steps are done
C25_MarkingOrder ==
    /\ Done("_AddMissingSymbol") =>
          /\ panel.extremesVisible =>
                /\ Precedes("_AddHighestMarker", "_AddMissingSymbol")
                /\ Precedes("_AddLowestMarker", "_AddMissingSymbol")
          /\ Precedes("_AddMissingSymbol", "_AddCarets")
    /\ Done("_AddCarets") => Done("_AddMissingSymbol")
    /\ update.drawn # << >> =>
          Done("_AddMissingSymbol") /\ Done("_AddCarets")

\* a window drawn with colored cells after the extreme markers, the missing
\* glyph of a null price and the carets, in this order
C25_Witness ==
    /\ Drawn /\ ColoredCell
    /\ update.done = << "_AddHighestMarker", "_AddLowestMarker",
                        "_AddMissingSymbol", "_AddCarets" >>
    /\ \E h \in DOMAIN visiblePrices : visiblePrices[h] = Missing

\* a window drawn without extreme markers
C25_WitnessNoExtremes ==
    /\ Drawn /\ ColoredCell
    /\ update.done = << "_AddMissingSymbol", "_AddCarets" >>
    /\ \E h \in DOMAIN visiblePrices : visiblePrices[h] = Missing

\* with the order of C25 as stated the caret of a current hour without a
\* price is lost: the glyph replaces it in the last positive row
CaretKept ==
    (Done("_AddCarets") /\ Done("_AddMissingSymbol")) =>
        Holds(ColumnOf(lines[1], CurrentColumn), Carets[1])

\* today's statistic "high" or "low", its hour and the current hour
ExtremePrice(which) ==
    IF which = "high" THEN PriceData(daily[2]).high ELSE PriceData(daily[2]).low

ExtremeHour(which) == ListIndex(daily[2], ExtremePrice(which))

CurrentHour ==
    CurrentHourIndex(Len(daily[2]), clock[1], clock[2], panel.normalTimezone)

ExtremeSymbol(which) == IF which = "high" THEN Extremes[2] ELSE Extremes[1]

ExtremeStep(which) ==
    IF which = "high" THEN "_AddHighestMarker" ELSE "_AddLowestMarker"

\* the places of a symbol in the padded grids: side, row and column
PlacesOf(symbol) ==
    { <<side, r, h>> \in {1, 2} \X (1..(MaxBarRows + 2)) \X (1..(MaxColumns + 1)) :
        /\ r \in DOMAIN lines[side]
        /\ h \in DOMAIN lines[side][r]
        /\ lines[side][r][h] = symbol }

\* the marker of an extreme stands where C24 wants it: nowhere when the
\* hour of the extreme is the current hour or lies outside the window,
\* else once, in column hour - currentHourIndex + pastHours, in the
\* positive rows for a price over zero and in the negative rows for a
\* price under zero
MarkerInPlace(which) ==
    LET price  == ValueOf(ExtremePrice(which))
        column == ExtremeHour(which) - CurrentHour + panel.pastHours
        places == PlacesOf(ExtremeSymbol(which))
    IN  IF ExtremeHour(which) = CurrentHour
           \/ ~ (0 <= column /\ column < Len(visiblePrices))
        THEN places = { }
        ELSE /\ Cardinality(places) = 1
             /\ \A place \in places :
                  /\ place[3] = column + 1
                  /\ price > 0 => place[1] = 1
                  /\ price < 0 => place[1] = 2

\* the step just done, a marker step, has left the grids that the placement
\* of C24 gives: the upper placement from the top down in the positive rows
\* for a price over zero, the lower placement from the bottom up in the
\* negative rows for a price under zero, nothing at the current hour
MarkerRouted(which) ==
    LET price  == ValueOf(ExtremePrice(which))
        column == ExtremeHour(which) - CurrentHour + panel.pastHours
        before == update.before
    IN  update.done[Len(update.done)] = ExtremeStep(which) =>
          IF ExtremeHour(which) = CurrentHour THEN lines = before
          ELSE /\ price > 0 =>
                    lines = << AddSymbolAbove(before[1], column,
                                              ExtremeSymbol(which)),
                               before[2] >>
               /\ price < 0 =>
                    lines = << before[1],
                               AddSymbolBelow(before[2], column,
                                              ExtremeSymbol(which)) >>

\* Update is over, or past the marker step of the extreme
MarkerDue(which) ==
    \/ update.step \in {"raised", "drawn"}
    \/ Done(ExtremeStep(which))

\* C24: in an Update of a graph that shows extreme markers, on a day that
\* has prices, the marker of the lowest and of the highest price of today
\* is placed in column hour - currentHourIndex + pastHours, is not placed
\* when the hour of the extreme is the current hour, and goes to the upper
\* placement in the positive rows for a positive extreme and to the lower
\* placement in the negative rows for a negative one
C24_ExtremeMarkers ==
    \A which \in {"high", "low"} :
        ( /\ panel.class = "Graph" /\ update.step # None
          /\ panel.extremesVisible
          /\ PriceData(daily[2]).hasData
          /\ update.err # ZeroDivisionError
          /\ MarkerDue(which) ) =>
            /\ update.err = NoError
            /\ MarkerInPlace(which)
            /\ MarkerRouted(which)

\* the rule of C24 for daily prices that are price series, the highest and
\* the lowest price of the day on different hours
ExtremeRule ==
    ( /\ update.step # None /\ update.form = "PriceSeries"
      /\ PriceData(daily[2]).hasData
      /\ ExtremeHour("high") # ExtremeHour("low") ) => C24_ExtremeMarkers

\* with both on the same hour each marker is placed as C24 says, and the
\* marker of the lowest price may then replace that of the highest
ExtremeRuleSameHour ==
    ( /\ update.step # None /\ update.form = "PriceSeries"
      /\ panel.extremesVisible
      /\ PriceData(daily[2]).hasData
      /\ update.err # ZeroDivisionError ) =>
        \A which \in {"high", "low"} :
            MarkerDue(which) =>
                /\ update.err = NoError
                /\ MarkerRouted(which)
                /\ which = "low" => MarkerInPlace(which)

\* both markers placed, above and below, in columns away from the current
\* hour
ExtremeRuleWitness ==
    /\ Drawn /\ panel.extremesVisible
    /\ \E place \in PlacesOf(Extremes[2]) : place[1] = 1
    /\ \E place \in PlacesOf(Extremes[1]) : place[1] = 2

\* the Update of a DailyData with extreme markers ends before any marker
C24_Raised ==
    /\ update.form = "PriceData" /\ panel.extremesVisible
    /\ update.step = "raised" /\ update.err = AttributeError
    /\ PriceData(daily[2]).hasData

\* the steps of Update that place a symbol with the upper placement
UpperSteps == { "_AddHighestMarker", "_AddLowestMarker", "_AddCarets" }

\* the cells of the padded positive rows that the last step has changed
\* were blank before it
WroteOnBlank ==
    \A r \in DOMAIN lines[1] : \A h \in DOMAIN lines[1][r] :
        lines[1][r][h] # update.before[1][r][h] =>
            update.before[1][r][h] = Blank

\* C30: in an Update with extreme markers every upper placement (highest
\* marker, lowest marker, upper caret) writes only into a cell of the padded
\* positive rows that was blank right before: no bar character and no
\* marker placed earlier is replaced, also when the highest and the lowest
\* price of the day fall on the same hour
C30_UpperWritesBlank ==
    ( /\ panel.class = "Graph" /\ update.step # None
      /\ panel.extremesVisible
      /\ update.done # << >>
      /\ update.done[Len(update.done)] \in UpperSteps ) => WroteOnBlank

\* the upper placements write on blank cells when the highest and the
\* lowest price of the day fall on different hours
UpperWritesBlankApart ==
    ( /\ panel.class = "Graph" /\ update.step # None
      /\ panel.extremesVisible
      /\ update.done # << >>
      /\ update.done[Len(update.done)] \in UpperSteps
      /\ PriceData(daily[2]).hasData
      /\ ExtremeHour("high") # ExtremeHour("low") ) => WroteOnBlank

\* the marker of the lowest price written over a bar in the last positive
\* row, the marker of the highest price above the column in the padding
BarReplaced ==
    /\ update.done # << >>
    /\ update.done[Len(update.done)] = "_AddLowestMarker"
    /\ \E h \in DOMAIN visiblePrices :
         /\ lines[1][1][h] = Extremes[2]
         /\ lines[1][Len(lines[1])][h] = Extremes[1]
         /\ update.before[1][Len(lines[1])][h] \in {FullBlock, HalfBlock}

(***************************************************************************)
(* The whole program: any one of the components at work                    *)
(***************************************************************************)
Init ==
    \/ InitLayout \/ InitScaler \/ InitMarker \/ InitDst
    \/ InitGeometry \/ InitStats \/ InitCollection \/ InitOptions
    \/ InitRender \/ InitApp
    \/ InitHandler \/ InitDayWalk \/ InitPipeline

Next ==
    \/ NextLayout \/ NextScaler \/ NextMarker \/ NextDst
    \/ NextGeometry \/ NextStats \/ NextCollection \/ NextOptions
    \/ NextRender \/ NextApp
    \/ NextHandler \/ NextDayWalk \/ NextPipeline

Spec == Init /\ [][Next]_vars

====
